---- MODULE Spec2Model ----
\* Old World ambition parser (src/parser/parse.py): the goal.xml normalization
\* loop of parse_goals, and the browser-side filter / availability / ranking
\* engine that the generated viewer runs over the published ambitions.json.
\*
\* Two specifications share the variables:
\*   Spec       the viewer session: loadData, the filter events, the debounced
\*              search timer, and filterAndRender after each of them;
\*   SpecParse  one run of main(): parse_goals over a sequence of raw goal
\*              entries, then the write of the output document.
\*
\* Text that the code inspects character by character (names, search terms,
\* numeric field texts, option values) is a sequence of one-character strings.
\* Identifiers that are only compared for equality are plain strings.
EXTENDS Integers, Sequences, FiniteSets, TLC

VARIABLES
    \* ---- viewer (JavaScript in generate_standalone_html) ----
    served,            \* the ambitions.json document the server holds
    loaded,            \* "loading" | "ready" | "failed"   (loadData)
    data,              \* let data = null; set by loadData
    selectedNation,    \* let selectedNation = ''
    selectedFamilies,  \* let selectedFamilies = new Set()
    completedCount,    \* let completedCount = 'all'
    classSelect,       \* classSelect.value
    searchInput,       \* searchInput.value (raw text)
    showUnavailable,   \* showUnavailable.checked
    timeout,           \* debounce: let timeout (0 while undefined, else a timer id)
    timers,            \* the ids of the pending setTimeout timers
    rendered,          \* what the last filterAndRender computed and displayed
    \* ---- parser (Python) ----
    refDirExists,      \* REFERENCE_DIR.exists()
    goalFile,          \* "ok" | "missing": whether goal.xml parses
    entries,           \* root.findall("Entry") of goal.xml
    idx,               \* number of entries the loop has consumed
    goals,             \* the list parse_goals builds
    pc,                \* position of main()
    output,            \* the written document's "ambitions", or NoOutput
    exitStatus,        \* main()'s return value, or NoStatus
    \* ---- text catalog and link resolver (Python) ----
    textFiles,         \* list(REFERENCE_DIR.glob("text-*.xml")), in load order
    fileIdx,           \* number of text files the loop has consumed
    texts,             \* the dict build_text_lookup fills
    linkParts,         \* the pieces of the text last given to resolve_link
    linkResult,        \* what resolve_link returned for it
    cpc,               \* position of the catalog run
    \* ---- nations and families (Python) ----
    nationFile,        \* "ok" | "missing": whether nation.xml parses
    nationEntries,     \* root.findall("Entry") of nation.xml
    familyFile,        \* "ok" | "missing": whether family.xml parses
    familyEntries,     \* root.findall("Entry") of family.xml
    nationFamilyClasses, \* parse_families: nation -> set of family classes
    natIdx,            \* number of nation entries the loop has consumed
    nations,           \* the dict parse_nations builds
    npc                \* position of parse_nations

uiVars    == <<served, loaded, data, selectedNation, selectedFamilies, completedCount,
               classSelect, searchInput, showUnavailable, timeout, timers, rendered>>
parseVars == <<refDirExists, goalFile, entries, idx, goals, pc, output, exitStatus>>
catVars   == <<textFiles, fileIdx, texts, linkParts, linkResult, cpc>>
natVars   == <<nationFile, nationEntries, familyFile, familyEntries, nationFamilyClasses,
               natIdx, nations, npc>>
vars      == <<uiVars, parseVars, catVars, natVars>>

-----------------------------------------------------------------------------
\* Bounds of the model.

\* longest ambition list the served document holds
MaxAmbitions == 3
\* longest sequence of raw goal entries
MaxEntries == 2
\* most text files in the reference directory
MaxTextFiles == 2
\* most pieces (plain texts and link macros) of a text given to resolve_link
MaxLinkParts == 2
\* most timers pending at once
MaxTimers == 2
\* longest sequence of entries of nation.xml
MaxNationEntries == 2
\* longest sequence of entries of family.xml
MaxFamilyEntries == 2

-----------------------------------------------------------------------------
\* Strings as sequences of characters.

LowerLetters == <<"a","b","c","d","e","f","g","h","i","j","k","l","m",
                  "n","o","p","q","r","s","t","u","v","w","x","y","z">>
UpperLetters == <<"A","B","C","D","E","F","G","H","I","J","K","L","M",
                  "N","O","P","Q","R","S","T","U","V","W","X","Y","Z">>
Digits       == <<"0","1","2","3","4","5","6","7","8","9">>

IndexIn(c, seq) == IF \E i \in DOMAIN seq : seq[i] = c
                   THEN CHOOSE i \in DOMAIN seq : seq[i] = c
                   ELSE 0

Chars == {" ", "-"} \cup {LowerLetters[i] : i \in DOMAIN LowerLetters}
                    \cup {UpperLetters[i] : i \in DOMAIN UpperLetters}
                    \cup {Digits[i] : i \in DOMAIN Digits}

\* Per character: its UTF-16 code unit, its lower-case form, the value of a
\* decimal digit, and its collation weights under the default collator (CLDR
\* root collation: space < punctuation < digits < letters on the primary level,
\* where case is ignored; lower case before upper case on the tertiary level).
CharTable ==
    [c \in Chars |->
        LET u == IndexIn(c, UpperLetters)
            l == IndexIn(c, LowerLetters)
            d == IndexIn(c, Digits)
        IN  [upper    |-> u > 0,
             digit    |-> d > 0,
             value    |-> d - 1,
             code     |-> IF c = " " THEN 32 ELSE IF c = "-" THEN 45
                          ELSE IF d > 0 THEN 47 + d
                          ELSE IF u > 0 THEN 64 + u ELSE 96 + l,
             lower    |-> IF u > 0 THEN LowerLetters[u] ELSE c,
             primary  |-> IF c = " " THEN 1 ELSE IF c = "-" THEN 2
                          ELSE IF d > 0 THEN 10 + d
                          ELSE IF u > 0 THEN 30 + u ELSE 30 + l,
             tertiary |-> IF u > 0 THEN 1 ELSE 0]]

IsUpper(c) == CharTable[c].upper
IsDigit(c) == CharTable[c].digit
DigitValue(c) == CharTable[c].value
CodeUnit(c) == CharTable[c].code

\* String.prototype.toLowerCase
LowerChar(c) == CharTable[c].lower
ToLowerCase(s) == [i \in DOMAIN s |-> LowerChar(s[i])]

\* String.prototype.trim
RECURSIVE TrimLeft(_)
TrimLeft(s) == IF s = <<>> THEN <<>>
               ELSE IF Head(s) = " " THEN TrimLeft(Tail(s)) ELSE s
RECURSIVE TrimRight(_)
TrimRight(s) == IF s = <<>> THEN <<>>
                ELSE IF s[Len(s)] = " " THEN TrimRight(SubSeq(s, 1, Len(s) - 1)) ELSE s
Trim(s) == TrimRight(TrimLeft(s))

\* Array.prototype.join(' ')
RECURSIVE Join(_)
Join(parts) == IF parts = <<>> THEN <<>>
               ELSE IF Len(parts) = 1 THEN parts[1]
               ELSE parts[1] \o <<" ">> \o Join(Tail(parts))

\* String.prototype.includes
Includes(hay, needle) ==
    \E k \in 0..(Len(hay) - Len(needle)) : SubSeq(hay, k + 1, k + Len(needle)) = needle

\* Order of two strings by UTF-16 code units (plain lexicographic order).
RECURSIVE LexLess(_, _)
LexLess(s, t) ==
    IF t = <<>> THEN FALSE
    ELSE IF s = <<>> THEN TRUE
    ELSE IF CodeUnit(Head(s)) # CodeUnit(Head(t)) THEN CodeUnit(Head(s)) < CodeUnit(Head(t))
    ELSE LexLess(Tail(s), Tail(t))

\* String.prototype.localeCompare with the default collator: strings are
\* compared first on their primary weights, and only when all of these agree
\* on their tertiary weights (case).
PrimaryWeight(c) == CharTable[c].primary
TertiaryWeight(c) == CharTable[c].tertiary
Weight(level, c) == IF level = "primary" THEN PrimaryWeight(c) ELSE TertiaryWeight(c)

RECURSIVE CompareWeights(_, _, _)
CompareWeights(level, s, t) ==
    IF s = <<>> /\ t = <<>> THEN 0
    ELSE IF s = <<>> THEN -1
    ELSE IF t = <<>> THEN 1
    ELSE IF Weight(level, Head(s)) < Weight(level, Head(t)) THEN -1
    ELSE IF Weight(level, Head(s)) > Weight(level, Head(t)) THEN 1
    ELSE CompareWeights(level, Tail(s), Tail(t))

LocaleCompare(s, t) ==
    LET p == CompareWeights("primary", s, t)
    IN  IF p # 0 THEN p ELSE CompareWeights("tertiary", s, t)

\* JavaScript values that are not always numbers: null, NaN or a number.
Null   == [type |-> "null"]
NaN    == [type |-> "NaN"]
Num(n) == [type |-> "number", value |-> n]

\* parseInt: the value of the leading decimal digits, NaN when there are none.
RECURSIVE DigitsValue(_, _)
DigitsValue(s, acc) ==
    IF s = <<>> \/ ~IsDigit(Head(s)) THEN acc
    ELSE DigitsValue(Tail(s), 10 * acc + DigitValue(Head(s)))
ParseInt(s) == LET t == TrimLeft(s)
               IN  IF t = <<>> \/ ~IsDigit(Head(t)) THEN NaN ELSE Num(DigitsValue(t, 0))

\* obj.key is present (not undefined)
Has(obj, key) == key \in DOMAIN obj

-----------------------------------------------------------------------------
\* The published document (ambitions.json) as the viewer reads it.

EmptyObject == [k \in {} |-> k]

Sages  == "FAMILYCLASS_SAGES"
Riders == "FAMILYCLASS_RIDERS"
Rome   == "NATION_ROME"
Egypt  == "NATION_EGYPT"

SagesName  == <<"S","a","g","e","s">>
RidersName == <<"R","i","d","e","r","s">>
UnitsName  == <<"U","n","i","t","s">>
RomeName   == <<"R","o","m","e">>
EgyptName  == <<"E","g","y","p","t">>

\* data.familyClasses
FamilyClassTable ==
    [f \in {Sages, Riders} |->
        [id |-> f, name |-> IF f = Sages THEN SagesName ELSE RidersName]]

\* data.nations: Rome has no Riders family, Egypt no Sages family
NationTable ==
    [n \in {Rome, Egypt} |->
        [id |-> n,
         name |-> IF n = Rome THEN RomeName ELSE EgyptName,
         familyClasses |-> IF n = Rome THEN <<Sages>> ELSE <<Riders>>]]

\* ambitionClassName of an ambition without iAmbitionClass: f"Class {0}"
Class0Name == <<"C","l","a","s","s"," ","0">>

\* data.ambitionClasses: option value -> class name (row 19 of the fixed table
\* AMBITION_CLASS_NAMES; class 0 has no row, hence no option)
AmbitionClassTable == [c \in {<<"1","9">>} |-> UnitsName]

Ambition(id, name, cls, clsName, help, minTier, maxTier, filters, victory) ==
    [id |-> id, name |-> name, helpText |-> help,
     ambitionClass |-> cls, ambitionClassName |-> clsName,
     minTier |-> minTier, maxTier |-> maxTier,
     filters |-> filters,
     flags |-> [victoryEligible |-> victory, blockComplete |-> FALSE, global |-> FALSE]]

\* The ambitions a served document may list: regular and national ones, with
\* and without nation / family constraints, names that differ in case only,
\* a name and tier shared by two ids, and tiers on both sides of the filter's
\* targets.
AmbitionPool ==
    { Ambition("GOAL_A", <<"a","b">>, 0, Class0Name, <<>>, 3, 7, EmptyObject, FALSE),
      Ambition("GOAL_B", <<"B">>, 0, Class0Name, <<>>, 1, 7,
               [familyClasses |-> <<Sages>>, familyClassNames |-> <<SagesName>>], FALSE),
      Ambition("GOAL_C", <<"A","b">>, 19, UnitsName, <<>>, 3, 10,
               [nationPrereq |-> Egypt, nationPrereqName |-> EgyptName], TRUE),
      Ambition("GOAL_D", <<"a">>, 19, UnitsName, <<>>, 10, 10,
               [nationPrereq |-> Egypt, nationPrereqName |-> EgyptName,
                familyClasses |-> <<Riders>>, familyClassNames |-> <<RidersName>>], TRUE),
      Ambition("GOAL_E", <<"a","b">>, 0, Class0Name, <<"B","a">>, 3, 7,
               EmptyObject, FALSE) }

Range(seq) == {seq[i] : i \in DOMAIN seq}

\* the sequences of at most n distinct elements of S
RECURSIVE DistinctSeqsUpTo(_, _)
DistinctSeqsUpTo(S, n) ==
    IF n = 0 THEN {<<>>}
    ELSE LET shorter == DistinctSeqsUpTo(S, n - 1)
         IN  shorter \cup {z \in {Append(q, x) : q \in shorter, x \in S} :
                                Cardinality(Range(z)) = Len(z)}

Documents ==
    { [ambitions |-> as, nations |-> NationTable,
       familyClasses |-> FamilyClassTable, ambitionClasses |-> AmbitionClassTable]
      : as \in DistinctSeqsUpTo(AmbitionPool, MaxAmbitions) }

\* The values the controls can deliver.
All == <<"a","l","l">>
\* three of the eleven buttons: All, 4 (target tier 5) and 7 (target tier 8)
CompletedButtons == {All, <<"4">>, <<"7">>}
SearchTexts == {<<>>, <<" ","A","B">>}

-----------------------------------------------------------------------------
\* filterAndRender and what it calls.

\* Faulty variant of TierFilter: the target tier is the bucket itself.
TierFilter_NoOffset(completed) ==
    IF completed # All
    THEN LET n == ParseInt(completed)
         IN  IF n = NaN THEN NaN ELSE Num(n.value)
    ELSE Null

\* let tierFilter = null; if (completedCount !== 'all') tierFilter = parseInt(completedCount) + 1
TierFilter(completed) ==
    IF completed # All
    THEN LET n == ParseInt(completed)
         IN  IF n = NaN THEN NaN ELSE Num(n.value + 1)
    ELSE Null

\* a.flags?.victoryEligible && a.minTier === 10
IsNational(a) == a.flags.victoryEligible /\ a.minTier = 10
\* Faulty variant of IsRegular: every victory-eligible ambition is left out.
IsRegular_VictoryOnly(a) == ~a.flags.victoryEligible
\* !(a.flags?.victoryEligible && a.minTier === 10)
IsRegular(a) == ~(a.flags.victoryEligible /\ a.minTier = 10)

\* if (tierFilter !== null) { if (minTier > tierFilter || maxTier < tierFilter) return false; }
PassesTier(a, tierFilter) ==
    IF tierFilter = Null THEN TRUE
    ELSE IF tierFilter = NaN THEN TRUE
    ELSE ~(a.minTier > tierFilter.value \/ a.maxTier < tierFilter.value)

\* if (selectedClass && ambition.ambitionClass !== parseInt(selectedClass)) return false;
PassesClass(a, selectedClass) ==
    LET n == ParseInt(selectedClass)
    IN  ~(selectedClass # <<>> /\ (n = NaN \/ a.ambitionClass # n.value))

\* Faulty variant of SearchableText: only the name is searched.
SearchableText_NameOnly(a) == ToLowerCase(a.name)

\* [name, ambitionClassName, helpText || '', ...(filters?.familyClassNames || [])].join(' ').toLowerCase()
SearchableText(a) ==
    ToLowerCase(Join(<<a.name, a.ambitionClassName, a.helpText>>
                     \o (IF Has(a.filters, "familyClassNames")
                         THEN a.filters.familyClassNames ELSE <<>>)))

\* if (searchTerm) { if (!searchableText.includes(searchTerm)) return false; }
PassesSearch(a, searchTerm) ==
    searchTerm = <<>> \/ Includes(SearchableText(a), searchTerm)

\* const filterAmbitions = (ambitions) => ambitions.filter(...)
FilterAmbitions(ambitions, tierFilter, selectedClass, searchTerm) ==
    LET Keep(a) == /\ PassesTier(a, tierFilter)
                   /\ PassesClass(a, selectedClass)
                   /\ PassesSearch(a, searchTerm)
    IN  SelectSeq(ambitions, Keep)

\* Faulty variant of CheckAvailability: the family test does not require a selection.
CheckAvailability_EmptySelectionConflicts(a, nation, families) ==
    LET filters == a.filters
        nationConflict ==
            /\ Has(filters, "nationPrereq") /\ filters.nationPrereq # ""
            /\ nation # ""
            /\ filters.nationPrereq # nation
        familyConflict ==
            /\ Has(filters, "familyClasses") /\ Len(filters.familyClasses) > 0
            /\ ~\E i \in DOMAIN filters.familyClasses : filters.familyClasses[i] \in families
    IN  [available |-> ~nationConflict /\ ~familyConflict,
         reasons |->
            (IF nationConflict
             THEN <<[text |-> "Requires", names |-> <<filters.nationPrereqName>>]>> ELSE <<>>)
            \o
            (IF familyConflict
             THEN <<[text |-> "Preferred by", names |-> filters.familyClassNames]>> ELSE <<>>)]

\* checkAvailability(ambition), reading selectedNation and selectedFamilies
CheckAvailability(a, nation, families) ==
    LET filters == a.filters
        nationConflict ==
            /\ Has(filters, "nationPrereq") /\ filters.nationPrereq # ""
            /\ nation # ""
            /\ filters.nationPrereq # nation
        familyTested ==
            /\ Has(filters, "familyClasses") /\ Len(filters.familyClasses) > 0
            /\ Cardinality(families) > 0
        hasMatchingFamily ==
            \E i \in DOMAIN filters.familyClasses : filters.familyClasses[i] \in families
        familyConflict == familyTested /\ ~hasMatchingFamily
    IN  [available |-> ~nationConflict /\ ~familyConflict,
         reasons |->
            (IF nationConflict
             THEN <<[text |-> "Requires", names |-> <<filters.nationPrereqName>>]>> ELSE <<>>)
            \o
            (IF familyConflict
             THEN <<[text |-> "Preferred by", names |-> filters.familyClassNames]>> ELSE <<>>)]

\* { ...ambition, availability }
WithAvailability(a, nation, families) ==
    [k \in DOMAIN a \cup {"availability"} |->
        IF k = "availability" THEN CheckAvailability(a, nation, families) ELSE a[k]]

\* the ambition a rendered item was made from
WithoutAvailability(x) == [k \in DOMAIN x \ {"availability"} |-> x[k]]

\* Faulty variant of Compare: names are compared by code units.
Compare_CodeUnits(a, b) ==
    IF a.availability.available # b.availability.available
    THEN (IF a.availability.available THEN -1 ELSE 1)
    ELSE IF a.minTier # b.minTier THEN a.minTier - b.minTier
    ELSE IF LexLess(a.name, b.name) THEN -1
    ELSE IF LexLess(b.name, a.name) THEN 1 ELSE 0

\* the comparator handed to withAvailability.sort
Compare(a, b) ==
    IF a.availability.available # b.availability.available
    THEN (IF a.availability.available THEN -1 ELSE 1)
    ELSE IF a.minTier # b.minTier THEN a.minTier - b.minTier
    ELSE LocaleCompare(a.name, b.name)

\* Array.prototype.sort(Compare): a stable sort; each element is inserted
\* behind every element already placed that does not compare greater.
InsertSorted(x, sorted) ==
    LET p == Cardinality({i \in DOMAIN sorted : Compare(sorted[i], x) <= 0})
    IN  SubSeq(sorted, 1, p) \o <<x>> \o SubSeq(sorted, p + 1, Len(sorted))
RECURSIVE SortFrom(_, _)
SortFrom(rest, sorted) ==
    IF rest = <<>> THEN sorted
    ELSE SortFrom(Tail(rest), InsertSorted(Head(rest), sorted))
Sort(seq) == SortFrom(seq, <<>>)

IsAvailable(x) == x.availability.available

\* Faulty variant of ProcessAmbitions: the hidden-unavailable list is not sorted.
ProcessAmbitions_SortWhenShown(ambitions, showUnavail, nation, families) ==
    LET withAvailability ==
            [i \in DOMAIN ambitions |-> WithAvailability(ambitions[i], nation, families)]
    IN  IF showUnavail THEN Sort(withAvailability)
        ELSE SelectSeq(withAvailability, IsAvailable)

\* Faulty variant of ProcessAmbitions: unavailable items are always dropped.
ProcessAmbitions_AlwaysDrop(ambitions, showUnavail, nation, families) ==
    LET withAvailability ==
            [i \in DOMAIN ambitions |-> WithAvailability(ambitions[i], nation, families)]
    IN  SelectSeq(Sort(withAvailability), IsAvailable)

\* const processAmbitions = (ambitions) => { map; sort; return showUnavail ? all : filter }
ProcessAmbitions(ambitions, showUnavail, nation, families) ==
    LET withAvailability ==
            [i \in DOMAIN ambitions |-> WithAvailability(ambitions[i], nation, families)]
        sorted == Sort(withAvailability)
    IN  IF showUnavail THEN sorted ELSE SelectSeq(sorted, IsAvailable)

\* filteredX.filter(a => checkAvailability(a).available).length
AvailableCount(filtered, nation, families) ==
    LET Avail(a) == CheckAvailability(a, nation, families).available
    IN  Len(SelectSeq(filtered, Avail))

\* Faulty variant of ResultCount: the national count is taken from the regular list.
ResultCount_NationalFromRegular(filteredRegular, filteredNational, tierFilter, nation, families) ==
    [availableRegular  |-> AvailableCount(filteredRegular, nation, families),
     tier              |-> tierFilter,
     totalRegular      |-> Len(filteredRegular),
     availableNational |-> AvailableCount(filteredRegular, nation, families)]

\* resultCount.textContent: the quantities the sentence
\*   <availableRegular> available[ at Tier <t>] (<filteredRegular.length> total) + <availableNational> national
\* carries, one field per quantity shown.
ResultCount(filteredRegular, filteredNational, tierFilter, nation, families) ==
    [availableRegular  |-> AvailableCount(filteredRegular, nation, families),
     tier              |-> tierFilter,
     totalRegular      |-> Len(filteredRegular),
     availableNational |-> AvailableCount(filteredNational, nation, families)]

\* One run of filterAndRender over the current controls and globals: its
\* locals and what renderAmbitions / resultCount display.
FilterAndRender(d, nation, families, completed, classValue, searchValue, showChecked) ==
    LET selectedClass == classValue
        searchTerm    == Trim(ToLowerCase(searchValue))
        showUnavail   == showChecked
        tierFilter    == TierFilter(completed)
        nationalAmbitions == SelectSeq(d.ambitions, IsNational)
        regularAmbitions  == SelectSeq(d.ambitions, IsRegular)
        filteredRegular   == FilterAmbitions(regularAmbitions, tierFilter, selectedClass, searchTerm)
        filteredNational  == FilterAmbitions(nationalAmbitions, tierFilter, selectedClass, searchTerm)
    IN  [selectedClass    |-> selectedClass,
         searchTerm       |-> searchTerm,
         showUnavail      |-> showUnavail,
         tierFilter       |-> tierFilter,
         filteredRegular  |-> filteredRegular,
         filteredNational |-> filteredNational,
         finalRegular     |-> ProcessAmbitions(filteredRegular, showUnavail, nation, families),
         finalNational    |-> ProcessAmbitions(filteredNational, showUnavail, nation, families),
         resultCount      |-> ResultCount(filteredRegular, filteredNational, tierFilter,
                                          nation, families)]

\* The page before the first filterAndRender: nothing listed.
NotRendered ==
    [selectedClass |-> <<>>, searchTerm |-> <<>>, showUnavail |-> FALSE, tierFilter |-> Null,
     filteredRegular |-> <<>>, filteredNational |-> <<>>,
     finalRegular |-> <<>>, finalNational |-> <<>>,
     resultCount |-> [availableRegular |-> 0, tier |-> Null, totalRegular |-> 0,
                      availableNational |-> 0]]

\* updateFamilyCheckboxes: a family class outside the selected nation is
\* disabled and removed from selectedFamilies.
AvailableFamilies(d, nation) ==
    IF nation # "" /\ nation \in DOMAIN d.nations
    THEN {d.nations[nation].familyClasses[i] : i \in DOMAIN d.nations[nation].familyClasses}
    ELSE {}
CheckboxEnabled(d, nation, f) == nation = "" \/ f \in AvailableFamilies(d, nation)
\* Faulty variant of UpdateFamilyCheckboxes: a disabled checkbox keeps its selection.
UpdateFamilyCheckboxes_KeepsSelection(d, nation, families) == families

UpdateFamilyCheckboxes(d, nation, families) ==
    {f \in families : ~(f \in DOMAIN d.familyClasses /\ ~CheckboxEnabled(d, nation, f))}

-----------------------------------------------------------------------------
\* parse_goals and the helpers it reads an entry with.  A raw entry is a
\* record holding one field per child element that is present; the value is
\* the element's text (<<>> for an element without text).  zType is a plain
\* string, "" for an element without text.

Merge(r1, r2) ==
    [k \in DOMAIN r1 \cup DOMAIN r2 |-> IF k \in DOMAIN r1 THEN r1[k] ELSE r2[k]]

ValueError == [type |-> "ValueError"]

\* int(text) on the texts of the model: surrounding blanks are ignored, then
\* an optional minus sign and one or more decimal digits; anything else
\* raises ValueError.
AllDigits(s) == s # <<>> /\ \A i \in DOMAIN s : IsDigit(s[i])
PyInt(text) ==
    LET t == Trim(text)
    IN  IF t # <<>> /\ Head(t) = "-" /\ AllDigits(Tail(t))
        THEN Num(0 - DigitsValue(Tail(t), 0))
        ELSE IF AllDigits(t) THEN Num(DigitsValue(t, 0))
        ELSE ValueError

\* get_text(entry, "zType"): the id, "" standing for None
GetId(entry) == IF Has(entry, "zType") THEN entry.zType ELSE ""

\* get_int(element, tag, default)
GetInt(entry, tag, default) ==
    IF Has(entry, tag) /\ entry[tag] # <<>>
    THEN LET n == PyInt(entry[tag]) IN IF n = ValueError THEN default ELSE n.value
    ELSE default

\* get_bool(element, tag): child.text == "1", False without child or text
GetBool(entry, tag) ==
    IF Has(entry, tag) /\ entry[tag] # <<>> THEN entry[tag] = <<"1">> ELSE FALSE

\* Faulty variant of ShouldSkip: the disabled flag is not tested.
ShouldSkip_IgnoresDisabled(entry) ==
    \/ GetId(entry) = ""
    \/ GetBool(entry, "bScenario")

\* the three "continue" tests at the head of the loop body
ShouldSkip(entry) ==
    \/ GetId(entry) = ""
    \/ GetBool(entry, "bScenario")
    \/ GetBool(entry, "bDisabled")

\* parse_pair_list(element): the pairs that have a zIndex, each with
\* int(iValue) or 0 without an iValue; the first int() that fails raises.
PairValue(pair) ==
    IF Has(pair, "iValue") /\ pair.iValue # <<>> THEN PyInt(pair.iValue) ELSE Num(0)
ParsePairList(entry, tag) ==
    LET raw   == IF Has(entry, tag) THEN entry[tag] ELSE <<>>
        HasIndex(pair) == Has(pair, "zIndex") /\ pair.zIndex # ""
        pairs == SelectSeq(raw, HasIndex)
    IN  IF \E i \in DOMAIN pairs : PairValue(pairs[i]) = ValueError
        THEN ValueError
        ELSE [type  |-> "list",
              items |-> [i \in DOMAIN pairs |->
                            [type |-> pairs[i].zIndex, value |-> PairValue(pairs[i]).value]]]

\* obj[key] = val on a dict: the key is added or its value replaced
Put(obj, key, val) ==
    [k \in DOMAIN obj \cup {key} |-> IF k = key THEN val ELSE obj[k]]

\* Rows 1 and 8 of simple_counts and rows 1 and 7 of typed_counts, as
\* <<xml_field, json_field>>.
SimpleCounts == << <<"iCities", "cities">>, <<"iSpecialists", "specialists">> >>
TypedCounts  == << <<"aiYieldProducedData", "yieldProduced">>,
                   <<"aiSpecialistCount", "specialists">> >>

\* Faulty variant of TagIfUntagged: the tag is set whatever the record holds.
TagIfUntagged_Overwrites(req, tag) == Put(req, "type", tag)

\* if "type" not in goal["requirements"]: goal["requirements"]["type"] = tag
TagIfUntagged(req, tag) == IF Has(req, "type") THEN req ELSE Put(req, "type", tag)

\* for xml_field, json_field, _ in simple_counts: a value above 0 is stored
\* under json_field, after tagging type "count" when no tag is set
RECURSIVE SimpleCountPass(_, _, _)
SimpleCountPass(entry, table, req) ==
    IF table = <<>> THEN req
    ELSE LET value  == GetInt(entry, Head(table)[1], 0)
             tagged == TagIfUntagged(req, "count")
         IN  SimpleCountPass(entry, Tail(table),
                 IF value > 0 THEN Put(tagged, Head(table)[2], Num(value)) ELSE req)

\* for xml_field, json_field, _ in typed_counts: a non-empty pair list is
\* stored under json_field, after tagging type "typed_count" when no tag is
\* set; a pair list that makes int() raise ends the pass with ValueError
RECURSIVE TypedCountPass(_, _, _)
TypedCountPass(entry, table, req) ==
    IF table = <<>> THEN req
    ELSE LET pairs  == ParsePairList(entry, Head(table)[1])
             tagged == TagIfUntagged(req, "typed_count")
         IN  IF pairs = ValueError THEN ValueError
             ELSE TypedCountPass(entry, Tail(table),
                      IF pairs.items # <<>> THEN Put(tagged, Head(table)[2], pairs)
                      ELSE req)

\* get_text(element, tag): the child's text, None without child or text;
\* HasText is the truth value "if text:" gives the result
HasText(entry, tag) == Has(entry, tag) /\ entry[tag] # ""
GetText(entry, tag) == IF HasText(entry, tag) THEN entry[tag] ELSE Null

\* parse_value_list(element): the texts of the zValue children that have one
ParseValueList(entry, tag) ==
    LET raw == IF Has(entry, tag) THEN entry[tag] ELSE <<>>
        HasValue(v) == v # ""
    IN  SelectSeq(raw, HasValue)

\* if start_law: type = "law"; law = start_law            (lawName left out)
\* if theology:  type = "theology"; theology = theology   (theologyName left out)
LawAndTheology(entry, req) ==
    LET law      == GetText(entry, "StartLaw")
        theology == GetText(entry, "EstablishTheology")
        r1 == IF HasText(entry, "StartLaw")
              THEN Put(Put(req, "type", "law"), "law", law) ELSE req
    IN  IF HasText(entry, "EstablishTheology")
        THEN Put(Put(r1, "type", "theology"), "theology", theology)
        ELSE r1

\* Faulty variant of TechList: the tag is set only when no tag is set yet.
TechList_KeepsTag(entry, req) ==
    LET techs == ParseValueList(entry, "aeTechsAcquired")
    IN  IF techs # <<>>
        THEN Put(IF Has(req, "type") THEN req ELSE Put(req, "type", "techs"), "techs", techs)
        ELSE req

\* if techs_acquired: type = "techs"; techs = techs_acquired   (techNames left out)
TechList(entry, req) ==
    LET techs == ParseValueList(entry, "aeTechsAcquired")
    IN  IF techs # <<>> THEN Put(Put(req, "type", "techs"), "techs", techs) ELSE req

\* sub goals, the two boolean requirements, the diplomacy requirement and
\* the family opinion requirement (their display names left out)
LaterShapes(entry, req) ==
    LET subGoals  == ParseValueList(entry, "aeSubGoals")
        diplomacy == GetText(entry, "DiplomacyAll")
        opinion   == GetText(entry, "MinOpinionFamily")
        r1 == IF subGoals # <<>> THEN Put(req, "subGoals", subGoals) ELSE req
        r2 == IF GetBool(entry, "bStateReligion") THEN Put(r1, "stateReligion", TRUE) ELSE r1
        r3 == IF GetBool(entry, "bAllHolyCities") THEN Put(r2, "allHolyCities", TRUE) ELSE r2
        r4 == IF HasText(entry, "DiplomacyAll") THEN Put(r3, "diplomacyAll", diplomacy) ELSE r3
    IN  IF HasText(entry, "MinOpinionFamily") THEN Put(r4, "minOpinionFamily", opinion) ELSE r4

\* goal["requirements"] as the loop body fills it, or ValueError when a pair
\* list of the entry makes int() raise
Requirements(entry) ==
    LET simple == SimpleCountPass(entry, SimpleCounts, LawAndTheology(entry, EmptyObject))
        typed  == TypedCountPass(entry, TypedCounts, simple)
    IN  IF typed = ValueError THEN ValueError
        ELSE LaterShapes(entry, TechList(entry, typed))

\* Faulty variant of NationFamilyClasses: every pair counts, whatever its bValue.
NationFamilyClasses_AnyValue(familyList) ==
    LET Listed(e) ==
            IF Has(e, "abNation")
            THEN {e.abNation[k].zIndex :
                     k \in {j \in DOMAIN e.abNation : HasText(e.abNation[j], "zIndex")}}
            ELSE {}
        named == {k \in DOMAIN familyList : HasText(familyList[k], "zType")}
    IN  [n \in UNION {Listed(familyList[k]) : k \in named} |->
            {familyList[k].FamilyClass :
                k \in {j \in named : /\ n \in Listed(familyList[j])
                                    /\ HasText(familyList[j], "FamilyClass")}}]

\* parse_families: nation_family_classes after the loop over the entries.
\* An entry without zType is passed over; every Pair of abNation with a
\* zIndex and bValue "1" gives its nation a set, to which the entry's
\* FamilyClass is added when it has one.
NationFamilyClasses(familyList) ==
    LET RECURSIVE AddPairs(_, _, _)
        AddPairs(pairs, entry, dict) ==
            IF pairs = <<>> THEN dict
            ELSE LET pair == Head(pairs)
                     counts == /\ HasText(pair, "zIndex")
                               /\ Has(pair, "bValue") /\ pair.bValue = <<"1">>
                     opened == IF pair.zIndex \in DOMAIN dict THEN dict
                               ELSE Put(dict, pair.zIndex, {})
                     added  == IF HasText(entry, "FamilyClass")
                               THEN Put(opened, pair.zIndex,
                                        opened[pair.zIndex] \cup {entry.FamilyClass})
                               ELSE opened
                 IN  AddPairs(Tail(pairs), entry, IF counts THEN added ELSE dict)
        RECURSIVE AddEntries(_, _)
        AddEntries(list, dict) ==
            IF list = <<>> THEN dict
            ELSE LET entry == Head(list)
                 IN  AddEntries(Tail(list),
                         IF ~HasText(entry, "zType") THEN dict
                         ELSE AddPairs(IF Has(entry, "abNation") THEN entry.abNation ELSE <<>>,
                                       entry, dict))
    IN  AddEntries(familyList, EmptyObject)

\* One row of EVENT_ONLY_AMBITIONS (GOAL_TAKE_CITY), with its dlc of None.
EventOnlyAmbitions ==
    [g \in {"GOAL_TAKE_CITY"} |->
        [eventName |-> "Various conquest/rivalry events",
         dlc       |-> Null,
         trigger   |-> "Rivalry or conquest event chains"]]

\* The goal the loop body builds from an entry it does not skip (the id, the
\* tier range, the subject weight, the requirements and the event overlay),
\* or ValueError when a pair list of the entry makes int() raise.
BuildGoal(entry) ==
    LET req    == Requirements(entry)
        goal   == [id            |-> GetId(entry),
                   minTier       |-> GetInt(entry, "iMinTier", 1),
                   maxTier       |-> GetInt(entry, "iMaxTier", 10),
                   subjectWeight |-> GetInt(entry, "iSubjectWeight", 0),
                   requirements  |-> req]
    IN  IF req = ValueError THEN ValueError
        ELSE IF GetId(entry) \in DOMAIN EventOnlyAmbitions
        THEN Put(goal, "eventSource",
                 [eventName |-> EventOnlyAmbitions[GetId(entry)].eventName,
                  eventDlc  |-> EventOnlyAmbitions[GetId(entry)].dlc,
                  trigger   |-> EventOnlyAmbitions[GetId(entry)].trigger])
        ELSE goal

\* The raw entries of the model: every combination of an id part, a flag part
\* and a tier part, entries whose pair list holds a malformed iValue, and the
\* entries of CountEntries.
IdParts == {[zType |-> ""], [zType |-> "GOAL_A"], [zType |-> "GOAL_B"]}
FlagParts == {EmptyObject,
              [bScenario |-> <<"1">>],
              [bScenario |-> <<"0">>, bDisabled |-> <<"1">>],
              [bScenario |-> <<"t","r","u","e">>, bDisabled |-> <<>>]}
TierParts == {EmptyObject,
              [iMinTier |-> <<"3">>, iMaxTier |-> <<"7">>],
              [iMinTier |-> <<"1","1">>],
              [iMaxTier |-> <<"x">>]}
MalformedPairs == <<[zIndex |-> "YIELD_FOOD", iValue |-> <<"x">>]>>
WellFormedPairs == <<[zIndex |-> "YIELD_FOOD", iValue |-> <<"2","0">>]>>
SpecialistPairs == <<[zIndex |-> "SPECIALIST_POET", iValue |-> <<"3">>],
                     [iValue |-> <<"4">>]>>
\* entries with count fields, pair lists and a subject weight; the last three
\* carry the id of an event-only ambition or a subject weight
CountEntries ==
    {[zType |-> "GOAL_A", iCities |-> <<"2">>, aiYieldProducedData |-> WellFormedPairs],
     [zType |-> "GOAL_A", iCities |-> <<"-","1">>, aiYieldProducedData |-> WellFormedPairs],
     [zType |-> "GOAL_B", iSpecialists |-> <<"2">>, aiSpecialistCount |-> SpecialistPairs],
     [zType |-> "GOAL_TAKE_CITY"],
     [zType |-> "GOAL_TAKE_CITY", iSubjectWeight |-> <<"5">>],
     [zType |-> "GOAL_B", iSubjectWeight |-> <<"5">>, iCities |-> <<"2">>]}
RawGoalEntries ==
    {Merge(Merge(i, f), t) : i \in IdParts, f \in FlagParts, t \in TierParts}
    \cup {[zType |-> "GOAL_A", aiYieldProducedData |-> MalformedPairs],
          [zType |-> "GOAL_B", aiYieldProducedData |-> WellFormedPairs],
          [zType |-> "GOAL_B", bScenario |-> <<"1">>, aiYieldProducedData |-> MalformedPairs]}
    \cup CountEntries

\* Entries that differ in their requirement fields only: a law (also with an
\* empty text), a theology, a technology list (also one without a text),
\* counts above, at and below 0, pair lists (also one whose pair has no
\* zIndex), and the later shapes.
RequirementEntries ==
    LET LawParts == {EmptyObject, [StartLaw |-> "LAW_SLAVERY"], [StartLaw |-> ""]}
        TheologyParts == {EmptyObject, [EstablishTheology |-> "THEOLOGY_LEGALISM"]}
        TechParts == {EmptyObject, [aeTechsAcquired |-> <<"">>],
                      [aeTechsAcquired |-> <<"", "TECH_FORESTRY">>]}
        SimpleParts == {EmptyObject, [iCities |-> <<"2">>], [iCities |-> <<"0">>],
                        [iCities |-> <<"-","1">>], [iSpecialists |-> <<"2">>],
                        [iCities |-> <<"2">>, iSpecialists |-> <<"2">>]}
        TypedParts == {EmptyObject, [aiYieldProducedData |-> WellFormedPairs],
                       [aiSpecialistCount |-> SpecialistPairs],
                       [aiYieldProducedData |-> <<[iValue |-> <<"5">>]>>]}
        LaterParts == {EmptyObject, [aeSubGoals |-> <<"GOAL_B">>],
                       [bStateReligion |-> <<"1">>, bAllHolyCities |-> <<"1">>],
                       [DiplomacyAll |-> "DIPLOMACY_PEACE",
                        MinOpinionFamily |-> "OPINIONFAMILY_PLEASED"]}
    IN  { Merge(Merge(Merge([zType |-> "GOAL_A"], l), Merge(th, te)),
                Merge(Merge(si, ty), la)) :
            l \in LawParts, th \in TheologyParts, te \in TechParts,
            si \in SimpleParts, ty \in TypedParts, la \in LaterParts }

RECURSIVE SeqsUpTo(_, _)
SeqsUpTo(S, n) ==
    IF n = 0 THEN {<<>>}
    ELSE LET shorter == SeqsUpTo(S, n - 1)
         IN  shorter \cup {Append(q, x) : q \in {z \in shorter : Len(z) = n - 1}, x \in S}

NotWritten == [written |-> FALSE, ambitions |-> <<>>]

-----------------------------------------------------------------------------
\* build_text_lookup and resolve_link.  Text keys, type ids and display texts
\* are sequences of characters.

IsLetter(c) == IndexIn(c, UpperLetters) > 0 \/ IndexIn(c, LowerLetters) > 0
UpperChar(c) == IF IndexIn(c, LowerLetters) > 0
                THEN UpperLetters[IndexIn(c, LowerLetters)] ELSE c
PyLowerChar(c) == IF IndexIn(c, UpperLetters) > 0
                  THEN LowerLetters[IndexIn(c, UpperLetters)] ELSE c

\* text.split(sep)[0]: the part before the first sep, the whole text without one
RECURSIVE SplitHead(_, _)
SplitHead(text, sep) ==
    IF text = <<>> \/ Head(text) = sep THEN <<>>
    ELSE <<Head(text)>> \o SplitHead(Tail(text), sep)

\* if "~" in text: text = text.split("~")[0]
FirstVariant(text) ==
    IF \E i \in DOMAIN text : text[i] = "~" THEN SplitHead(text, "~") ELSE text

\* Faulty variant of StoreEntry: a key already in the dict keeps its text.
StoreEntry_KeepFirst(dict, entry) ==
    IF /\ Has(entry, "zType") /\ entry.zType # <<>>
       /\ Has(entry, "enUS") /\ entry.enUS # <<>>
       /\ entry.zType \notin DOMAIN dict
    THEN Put(dict, entry.zType, FirstVariant(entry.enUS))
    ELSE dict

\* one <Entry> of a text file: stored when it has a zType and an en-US text
StoreEntry(dict, entry) ==
    IF /\ Has(entry, "zType") /\ entry.zType # <<>>
       /\ Has(entry, "enUS") /\ entry.enUS # <<>>
    THEN Put(dict, entry.zType, FirstVariant(entry.enUS))
    ELSE dict

RECURSIVE StoreEntries(_, _)
StoreEntries(dict, list) ==
    IF list = <<>> THEN dict
    ELSE StoreEntries(StoreEntry(dict, Head(list)), Tail(list))

\* one text file: skipped when parse_xml_file returns None
LoadFile(dict, file) ==
    IF file.readable THEN StoreEntries(dict, file.entries) ELSE dict

\* str.startswith
StartsWith(s, prefix) ==
    Len(s) >= Len(prefix) /\ SubSeq(s, 1, Len(prefix)) = prefix

\* str.replace("_", " ")
UnderscoresToSpaces(s) == [i \in DOMAIN s |-> IF s[i] = "_" THEN " " ELSE s[i]]

\* str.title(): a letter that follows a letter is lower-cased, any other
\* letter is upper-cased, other characters are kept
Title(s) ==
    [i \in DOMAIN s |->
        IF ~IsLetter(s[i]) THEN s[i]
        ELSE IF i > 1 /\ IsLetter(s[i - 1]) THEN PyLowerChar(s[i])
        ELSE UpperChar(s[i])]

\* the prefix list of replace_link, in its order
LinkPrefixes == <<<<"L","A","W","_">>,
                  <<"T","E","C","H","_">>,
                  <<"I","M","P","R","O","V","E","M","E","N","T","_">>,
                  <<"Y","I","E","L","D","_">>,
                  <<"S","P","E","C","I","A","L","I","S","T","_">>,
                  <<"F","A","M","I","L","Y","C","L","A","S","S","_">>,
                  <<"T","H","E","O","L","O","G","Y","_">>,
                  <<"R","E","L","I","G","I","O","N","_">>,
                  <<"U","N","I","T","_">>,
                  <<"P","R","O","J","E","C","T","_">>,
                  <<"D","I","P","L","O","M","A","C","Y","_">>,
                  <<"S","T","A","T","_">>>>

KeyOne == <<"K","1">>
KeyTwo == <<"K","2">>
LawA   == <<"L","A","W","_","A">>
TechB  == <<"T","E","C","H","_","B">>

\* type_lookups.values(), in the dict's order: the "law" table, then the
\* "tech" table.  LAW_A is in both, under different name keys.
TypeLookups ==
    << [r \in {LawA} |-> KeyOne],
       [r \in {LawA, TechB} |-> KeyTwo] >>

\* Faulty variant of ReplaceLink: the first table holding the reference
\* decides, whether or not its name key has a text.
ReplaceLink_FirstTableDecides(group, dict, lookups) ==
    LET ref    == SplitHead(group, ",")
        Holds(i) == ref \in DOMAIN lookups[i]
        Pre(p) == StartsWith(ref, LinkPrefixes[p])
    IN  IF /\ \E i \in DOMAIN lookups : Holds(i)
           /\ LET i == CHOOSE i \in DOMAIN lookups :
                           Holds(i) /\ \A j \in 1..(i - 1) : ~Holds(j)
              IN  lookups[i][ref] \in DOMAIN dict
        THEN LET i == CHOOSE i \in DOMAIN lookups :
                          Holds(i) /\ \A j \in 1..(i - 1) : ~Holds(j)
             IN  FirstVariant(dict[lookups[i][ref]])
        ELSE IF \E i \in DOMAIN lookups : Holds(i) THEN ref
        ELSE IF \E p \in DOMAIN LinkPrefixes : Pre(p)
        THEN LET p == CHOOSE p \in DOMAIN LinkPrefixes :
                          Pre(p) /\ \A q \in 1..(p - 1) : ~Pre(q)
             IN  Title(UnderscoresToSpaces(
                     SubSeq(ref, Len(LinkPrefixes[p]) + 1, Len(ref))))
        ELSE ref

\* replace_link(match), group being match.group(1)
ReplaceLink(group, dict, lookups) ==
    LET ref    == SplitHead(group, ",")
        Hit(i) == ref \in DOMAIN lookups[i] /\ lookups[i][ref] \in DOMAIN dict
        Pre(p) == StartsWith(ref, LinkPrefixes[p])
    IN  IF \E i \in DOMAIN lookups : Hit(i)
        THEN LET i == CHOOSE i \in DOMAIN lookups :
                          Hit(i) /\ \A j \in 1..(i - 1) : ~Hit(j)
             IN  FirstVariant(dict[lookups[i][ref]])
        ELSE IF \E p \in DOMAIN LinkPrefixes : Pre(p)
        THEN LET p == CHOOSE p \in DOMAIN LinkPrefixes :
                          Pre(p) /\ \A q \in 1..(p - 1) : ~Pre(q)
             IN  Title(UnderscoresToSpaces(
                     SubSeq(ref, Len(LinkPrefixes[p]) + 1, Len(ref))))
        ELSE ref

\* A match of link\(([^)]+)\) at the head of text: the position of its ")",
\* or 0 when there is none.
LinkOpen == <<"l","i","n","k","(">>
MatchEnd(text) ==
    IF /\ Len(text) >= 7
       /\ SubSeq(text, 1, 5) = LinkOpen
       /\ text[6] # ")"
       /\ \E j \in 7..Len(text) : text[j] = ")"
    THEN CHOOSE j \in 7..Len(text) :
             text[j] = ")" /\ \A k \in 7..(j - 1) : text[k] # ")"
    ELSE 0

\* re.sub(r"link\(([^)]+)\)", replace_link, text): matches are taken left to
\* right, do not overlap, and a replacement is not scanned again
RECURSIVE SubLinks(_, _, _)
SubLinks(text, dict, lookups) ==
    IF text = <<>> THEN <<>>
    ELSE IF MatchEnd(text) > 0
    THEN ReplaceLink(SubSeq(text, 6, MatchEnd(text) - 1), dict, lookups)
             \o SubLinks(SubSeq(text, MatchEnd(text) + 1, Len(text)), dict, lookups)
    ELSE <<Head(text)>> \o SubLinks(Tail(text), dict, lookups)

\* resolve_link(text, texts, type_lookups)
ResolveLink(text, dict, lookups) ==
    IF text = <<>> THEN text ELSE SubLinks(text, dict, lookups)

\* The text files of the model: entries that define a key with one or several
\* variants, with an empty first variant, twice in one file, and entries that
\* define nothing (no en-US, no zType); and a file that cannot be parsed.
TextFile(list) == [readable |-> TRUE, entries |-> list]
TextFilePool ==
    { TextFile(<<[zType |-> KeyOne, enUS |-> <<"a","~","b">>],
                 [zType |-> KeyTwo, enUS |-> <<"~","x">>]>>),
      TextFile(<<[zType |-> KeyOne, enUS |-> <<"c">>]>>),
      TextFile(<<[zType |-> KeyOne], [enUS |-> <<"q">>],
                 [zType |-> KeyOne, enUS |-> <<>>]>>),
      TextFile(<<[zType |-> KeyOne, enUS |-> <<"d">>],
                 [zType |-> KeyOne, enUS |-> <<"e","~","f","~","g">>]>>),
      TextFile(<<[zType |-> KeyTwo, enUS |-> <<"c">>]>>),
      [readable |-> FALSE, entries |-> <<>>] }

\* The pieces a text given to resolve_link is made of: plain text, or a macro
\* link(ref suffix).
Plain(t) == [kind |-> "text", text |-> t]
Macro(ref, suffix) == [kind |-> "link", ref |-> ref, suffix |-> suffix]
LinkPartPool ==
    { Plain(<<"x"," ">>),
      Plain(<<"l","i","n","k","(",")">>),
      Macro(<<"L","A","W","_","F","O","O","_","B","A","R">>, <<>>),
      Macro(LawA, <<",","1">>),
      Macro(TechB, <<>>),
      Macro(<<"U","N","I","T","_","b","2","_","c","D">>, <<",","2">>),
      Macro(<<"Z","Z","_","T","O","P">>, <<>>) }
\* a macro without its closing parenthesis, as the last piece of a text
Unclosed == Plain(<<"l","i","n","k","(","L","A","W","_","A">>)

PartText(part) ==
    IF part.kind = "text" THEN part.text
    ELSE LinkOpen \o part.ref \o part.suffix \o <<")">>
RECURSIVE PartsText(_)
PartsText(parts) ==
    IF parts = <<>> THEN <<>> ELSE PartText(Head(parts)) \o PartsText(Tail(parts))

CatalogIdle ==
    /\ textFiles = <<>> /\ fileIdx = 0 /\ texts = EmptyObject
    /\ linkParts = <<>> /\ linkResult = <<>> /\ cpc = "idle"

NationsIdle ==
    /\ nationFile = "missing" /\ nationEntries = <<>>
    /\ familyFile = "missing" /\ familyEntries = <<>>
    /\ nationFamilyClasses = EmptyObject /\ natIdx = 0
    /\ nations = EmptyObject /\ npc = "idle"

-----------------------------------------------------------------------------
\* The viewer session.

NoData == [ambitions |-> <<>>, nations |-> EmptyObject,
           familyClasses |-> EmptyObject, ambitionClasses |-> EmptyObject]

ParserIdle ==
    /\ refDirExists = FALSE /\ goalFile = "missing" /\ entries = <<>> /\ idx = 0
    /\ goals = <<>> /\ pc = "idle" /\ output = NotWritten /\ exitStatus = "none"

Init ==
    /\ served \in Documents
    /\ loaded = "loading"
    /\ data = NoData
    /\ selectedNation = ""
    /\ selectedFamilies = {}
    /\ completedCount = All
    /\ classSelect = <<>>
    /\ searchInput = <<>>
    /\ showUnavailable = FALSE
    /\ timeout = 0
    /\ timers = {}
    /\ rendered = NotRendered
    /\ ParserIdle
    /\ CatalogIdle
    /\ NationsIdle

\* Faulty variant of Render: the ambitions are sorted where they are, in the
\* array of the model.
Render_SortsInPlace(d, nation, families, completed, classValue, searchValue, showChecked) ==
    /\ rendered' = FilterAndRender(d, nation, families, completed, classValue, searchValue,
                                   showChecked)
    /\ data' = [d EXCEPT !.ambitions =
                   [i \in DOMAIN d.ambitions |->
                       WithoutAvailability(
                           Sort([k \in DOMAIN d.ambitions |->
                                    WithAvailability(d.ambitions[k], nation, families)])[i])]]

\* One filterAndRender() over the model d: the lists are computed from arrays
\* that filter and map create, and sorted there; nothing is assigned to data
\* or to an object of it.
Render(d, nation, families, completed, classValue, searchValue, showChecked) ==
    /\ rendered' = FilterAndRender(d, nation, families, completed, classValue, searchValue,
                                   showChecked)
    /\ data' = d

\* loadData: fetch, data = await response.json(); initializeUI(); filterAndRender()
LoadData ==
    /\ loaded = "loading"
    /\ loaded' = "ready"
    /\ selectedFamilies' = UpdateFamilyCheckboxes(served, selectedNation, selectedFamilies)
    /\ Render(served, selectedNation, selectedFamilies', completedCount, classSelect,
              searchInput, showUnavailable)
    /\ UNCHANGED <<served, selectedNation, completedCount, classSelect, searchInput,
                   showUnavailable, timeout, timers, parseVars, catVars, natVars>>

\* loadData's catch branch: the fetch or the JSON parse failed
LoadFailed ==
    /\ loaded = "loading"
    /\ loaded' = "failed"
    /\ UNCHANGED <<served, data, selectedNation, selectedFamilies, completedCount,
                   classSelect, searchInput, showUnavailable, timeout, timers, rendered, parseVars, catVars, natVars>>

\* handleNationChange: the select's change event
HandleNationChange(n) ==
    /\ loaded = "ready"
    /\ n # selectedNation
    /\ selectedNation' = n
    /\ selectedFamilies' = UpdateFamilyCheckboxes(data, n, selectedFamilies)
    /\ Render(data, n, selectedFamilies', completedCount, classSelect, searchInput,
              showUnavailable)
    /\ UNCHANGED <<served, loaded, completedCount, classSelect, searchInput,
                   showUnavailable, timeout, timers, parseVars, catVars, natVars>>

\* a family checkbox's change event (a disabled checkbox cannot be changed)
FamilyCheckboxChange(f) ==
    /\ loaded = "ready"
    /\ CheckboxEnabled(data, selectedNation, f)
    /\ selectedFamilies' = IF f \in selectedFamilies
                           THEN selectedFamilies \ {f} ELSE selectedFamilies \cup {f}
    /\ Render(data, selectedNation, selectedFamilies', completedCount, classSelect,
              searchInput, showUnavailable)
    /\ UNCHANGED <<served, loaded, selectedNation, completedCount, classSelect,
                   searchInput, showUnavailable, timeout, timers, parseVars, catVars, natVars>>

\* setupCompletedButtons: a completed-count button's click
CompletedButtonClick(b) ==
    /\ loaded = "ready"
    /\ completedCount' = b
    /\ Render(data, selectedNation, selectedFamilies, b, classSelect, searchInput,
              showUnavailable)
    /\ UNCHANGED <<served, loaded, selectedNation, selectedFamilies, classSelect,
                   searchInput, showUnavailable, timeout, timers, parseVars, catVars, natVars>>

\* Faulty variant of ClassChange: the lists are not recomputed.
ClassChange_Deferred(c) ==
    /\ loaded = "ready"
    /\ c # classSelect
    /\ classSelect' = c
    /\ UNCHANGED <<served, loaded, data, selectedNation, selectedFamilies, completedCount,
                   searchInput, showUnavailable, timeout, timers, rendered, parseVars,
                   catVars, natVars>>

\* classSelect's change event
ClassChange(c) ==
    /\ loaded = "ready"
    /\ c # classSelect
    /\ classSelect' = c
    /\ Render(data, selectedNation, selectedFamilies, completedCount, c, searchInput,
              showUnavailable)
    /\ UNCHANGED <<served, loaded, selectedNation, selectedFamilies, completedCount,
                   searchInput, showUnavailable, timeout, timers, parseVars, catVars, natVars>>

\* Faulty variant of ShowUnavailableChange: the pending timer is cancelled.
ShowUnavailableChange_CancelsTimer ==
    /\ loaded = "ready"
    /\ showUnavailable' = ~showUnavailable
    /\ timers' = timers \ {timeout}
    /\ Render(data, selectedNation, selectedFamilies, completedCount, classSelect,
              searchInput, showUnavailable')
    /\ UNCHANGED <<served, loaded, selectedNation, selectedFamilies, completedCount,
                   classSelect, searchInput, timeout, parseVars, catVars, natVars>>

\* showUnavailable's change event
ShowUnavailableChange ==
    /\ loaded = "ready"
    /\ showUnavailable' = ~showUnavailable
    /\ Render(data, selectedNation, selectedFamilies, completedCount, classSelect,
              searchInput, showUnavailable')
    /\ UNCHANGED <<served, loaded, selectedNation, selectedFamilies, completedCount,
                   classSelect, searchInput, timeout, timers, parseVars, catVars, natVars>>

\* clearTimeout(handle): the timer is no longer pending (no effect when the
\* handle names no pending timer)
ClearTimeout(pending, handle) == pending \ {handle}

\* setTimeout returns the id of the new timer; an id that is free again may
\* be handed out again
NewTimerId(pending) ==
    CHOOSE id \in 1..(Cardinality(pending) + 1) :
        id \notin pending /\ \A j \in 1..(id - 1) : j \in pending

\* Faulty variant of Debounced: the timer set before is left pending.
Debounced_NoClear(handle, pending) ==
    [timeout |-> NewTimerId(pending), timers |-> pending \cup {NewTimerId(pending)}]

\* the function debounce returns: clearTimeout(timeout); timeout = setTimeout(...)
Debounced(handle, pending) ==
    LET cleared == ClearTimeout(pending, handle)
    IN  [timeout |-> NewTimerId(cleared), timers |-> cleared \cup {NewTimerId(cleared)}]

\* searchInput's input event, whose listener is debounce(filterAndRender, 200)
SearchInputEvent(text) ==
    /\ loaded = "ready"
    /\ text # searchInput
    /\ Cardinality(Debounced(timeout, timers).timers) <= MaxTimers
    /\ searchInput' = text
    /\ timeout' = Debounced(timeout, timers).timeout
    /\ timers' = Debounced(timeout, timers).timers
    /\ UNCHANGED <<served, loaded, data, selectedNation, selectedFamilies, completedCount,
                   classSelect, showUnavailable, rendered, parseVars, catVars, natVars>>

\* the pending timer t fires: func(...args), i.e. filterAndRender
TimerFires(t) ==
    /\ t \in timers
    /\ timers' = timers \ {t}
    /\ Render(data, selectedNation, selectedFamilies, completedCount, classSelect,
              searchInput, showUnavailable)
    /\ UNCHANGED <<served, loaded, selectedNation, selectedFamilies, completedCount,
                   classSelect, searchInput, showUnavailable, timeout, parseVars, catVars, natVars>>

Next ==
    \/ LoadData
    \/ LoadFailed
    \/ \E n \in {""} \cup DOMAIN data.nations : HandleNationChange(n)
    \/ \E f \in DOMAIN data.familyClasses : FamilyCheckboxChange(f)
    \/ \E b \in CompletedButtons : CompletedButtonClick(b)
    \/ \E c \in {<<>>} \cup DOMAIN data.ambitionClasses : ClassChange(c)
    \/ ShowUnavailableChange
    \/ \E text \in SearchTexts : SearchInputEvent(text)
    \/ \E t \in timers : TimerFires(t)

Spec == Init /\ [][Next]_vars

-----------------------------------------------------------------------------
\* Properties of the viewer (checked under Spec).

Count(seq, x) == Cardinality({i \in DOMAIN seq : seq[i] = x})
SameElements(s, t) == \A x \in Range(s) \cup Range(t) : Count(s, x) = Count(t, x)
Stripped(final) == [i \in DOMAIN final |-> WithoutAvailability(final[i])]
Ready == loaded = "ready"

\* C1: every ambition that survives the filters is in exactly one of the two
\* filtered partitions, national iff victoryEligible and minTier = 10, and the
\* two partitions together hold exactly the filtered ambitions.
C1_PartitionTotality ==
    Ready =>
        LET r    == rendered
            full == FilterAmbitions(data.ambitions, r.tierFilter, r.selectedClass, r.searchTerm)
        IN  /\ \A i \in DOMAIN r.filteredNational :
                   /\ r.filteredNational[i].flags.victoryEligible
                   /\ r.filteredNational[i].minTier = 10
            /\ \A i \in DOMAIN r.filteredRegular :
                   ~(/\ r.filteredRegular[i].flags.victoryEligible
                     /\ r.filteredRegular[i].minTier = 10)
            /\ \A x \in Range(full) \cup Range(r.filteredRegular) \cup Range(r.filteredNational) :
                   /\ Count(r.filteredRegular, x) + Count(r.filteredNational, x) = Count(full, x)
                   /\ (x \in Range(r.filteredRegular)) # (x \in Range(r.filteredNational))

\* C1 witness: a filter is active, both partitions are non-empty, and the
\* regular one holds a victory-eligible ambition whose minTier is not 10.
C1_Witness ==
    /\ Ready
    /\ rendered.selectedClass # <<>>
    /\ Len(rendered.filteredNational) > 0
    /\ \E i \in DOMAIN rendered.filteredRegular :
           rendered.filteredRegular[i].flags.victoryEligible
    /\ Len(rendered.filteredRegular) + Len(rendered.filteredNational) < Len(data.ambitions)

\* The order of a displayed list under a name order Before(s, t) ("s must not
\* come after t"): no unavailable item precedes an available one; among items
\* of equal availability minTier ascends; among items of equal availability
\* and minTier the name that is strictly before the other comes first.
OrderedBy(list, StrictlyBefore(_, _)) ==
    \A i, j \in DOMAIN list :
        i < j =>
            /\ ~(~IsAvailable(list[i]) /\ IsAvailable(list[j]))
            /\ IsAvailable(list[i]) = IsAvailable(list[j]) =>
                   /\ list[i].minTier <= list[j].minTier
                   /\ list[i].minTier = list[j].minTier =>
                          ~StrictlyBefore(list[j].name, list[i].name)

LocaleBefore(s, t) == LocaleCompare(s, t) < 0

\* C2 as claimed: each displayed list is ordered available first, then by
\* minTier, then by name in lexicographic (code unit) order.
C2_LexicographicOrder ==
    Ready => /\ OrderedBy(rendered.finalRegular, LexLess)
             /\ OrderedBy(rendered.finalNational, LexLess)

\* C2 as amended: each displayed list is ordered available first, then by
\* ascending minTier, then by name in the order of localeCompare.
C2_LocaleOrder ==
    Ready => /\ OrderedBy(rendered.finalRegular, LocaleBefore)
             /\ OrderedBy(rendered.finalNational, LocaleBefore)

\* C2 witness: a displayed list with an unavailable item behind the available
\* ones and two items of equal availability and minTier with different names.
C2_Witness ==
    /\ Ready
    /\ \E i, j, k \in DOMAIN rendered.finalRegular :
           /\ i < j /\ j < k
           /\ IsAvailable(rendered.finalRegular[i]) /\ IsAvailable(rendered.finalRegular[j])
           /\ rendered.finalRegular[i].minTier = rendered.finalRegular[j].minTier
           /\ LocaleCompare(rendered.finalRegular[i].name, rendered.finalRegular[j].name) < 0
           /\ ~IsAvailable(rendered.finalRegular[k])
           /\ rendered.finalRegular[k].minTier < rendered.finalRegular[i].minTier

\* Two renderings differ in the show-unavailable toggle only: the data, the
\* nation, the families and every other local of filterAndRender agree.
OnlyToggleDiffers(on, off) ==
    /\ on.showUnavail /\ ~off.showUnavail
    /\ on.tierFilter = off.tierFilter
    /\ on.selectedClass = off.selectedClass
    /\ on.searchTerm = off.searchTerm
RestrictedToAvailable(on, off) ==
    /\ off.finalRegular = SelectSeq(on.finalRegular, IsAvailable)
    /\ off.finalNational = SelectSeq(on.finalNational, IsAvailable)

\* C3: whenever a step re-renders with only the show-unavailable toggle
\* changed, the lists shown with the toggle off are the lists shown with it on
\* restricted to the available items, in the same relative order.
C3_ToggleKeepsOrder ==
    [][ (/\ Ready /\ Ready'
         /\ data' = data
         /\ selectedNation' = selectedNation
         /\ selectedFamilies' = selectedFamilies)
        => /\ OnlyToggleDiffers(rendered, rendered') => RestrictedToAvailable(rendered, rendered')
           /\ OnlyToggleDiffers(rendered', rendered) => RestrictedToAvailable(rendered', rendered)
      ]_vars

\* C3 witness: rendered with the toggle off, an unavailable item is hidden and
\* two available items remain, in an order that is not their input order.
C3_Witness ==
    /\ Ready
    /\ ~rendered.showUnavail
    /\ Len(rendered.finalRegular) >= 2
    /\ Len(rendered.finalRegular) < Len(rendered.filteredRegular)
    /\ Stripped(rendered.finalRegular) # SelectSeq(rendered.filteredRegular,
           LAMBDA a : CheckAvailability(a, selectedNation, selectedFamilies).available)

\* One-digit data-count values: bucket b is the button whose text is digit b.
BucketButton(b) == <<Digits[b + 1]>>

\* C4: the tier filter is active only for a bucket b in 0..9; then the target
\* tier is b + 1 and exactly the ambitions with minTier <= b + 1 <= maxTier
\* (that also pass the class and search filters) are kept; with 'all' the tier
\* filter removes nothing.
C4_TierFilter ==
    Ready =>
        LET Others(a) == /\ PassesClass(a, rendered.selectedClass)
                         /\ PassesSearch(a, rendered.searchTerm)
            kept == Range(rendered.filteredRegular) \cup Range(rendered.filteredNational)
        IN  /\ completedCount \in {All} \cup {BucketButton(b) : b \in 0..9}
            /\ completedCount = All =>
                   /\ rendered.tierFilter = Null
                   /\ \A a \in Range(data.ambitions) : Others(a) => a \in kept
            /\ \A b \in 0..9 :
                   completedCount = BucketButton(b) =>
                       /\ rendered.tierFilter = Num(b + 1)
                       /\ \A a \in Range(data.ambitions) :
                              a \in kept <=> /\ Others(a)
                                             /\ a.minTier <= b + 1
                                             /\ b + 1 <= a.maxTier

\* C4 witness: bucket 7 (target tier 8): an ambition with tiers 3..7 is
\* removed while one whose range holds 8 is kept.
C4_Witness ==
    /\ Ready
    /\ completedCount = <<"7">>
    /\ \E a \in Range(data.ambitions) :
           /\ a.minTier = 3 /\ a.maxTier = 7
           /\ a \notin Range(rendered.filteredRegular)
    /\ \E a \in Range(rendered.filteredRegular) : a.minTier <= 8 /\ 8 <= a.maxTier

\* The claimed condition of unavailability, from the ambition's filters and
\* the current selection.
ClaimedUnavailable(a) ==
    \/ /\ Has(a.filters, "nationPrereq")
       /\ selectedNation # ""
       /\ a.filters.nationPrereq # selectedNation
    \/ /\ Has(a.filters, "familyClasses")
       /\ a.filters.familyClasses # <<>>
       /\ selectedFamilies # {}
       /\ selectedFamilies \cap Range(a.filters.familyClasses) = {}

\* C5: a displayed ambition is marked unavailable iff its nation prerequisite
\* conflicts with the selected nation or its family classes miss a non-empty
\* selection; the counts follow the same marks; with nothing selected every
\* filtered ambition is displayed and marked available.
C5_Availability ==
    Ready =>
        /\ \A x \in Range(rendered.finalRegular) \cup Range(rendered.finalNational) :
               IsAvailable(x) = ~ClaimedUnavailable(x)
        /\ rendered.resultCount.availableRegular =
               Cardinality({i \in DOMAIN rendered.filteredRegular :
                               ~ClaimedUnavailable(rendered.filteredRegular[i])})
        /\ (selectedNation = "" /\ selectedFamilies = {}) =>
               /\ SameElements(Stripped(rendered.finalRegular), rendered.filteredRegular)
               /\ SameElements(Stripped(rendered.finalNational), rendered.filteredNational)
               /\ \A x \in Range(rendered.finalRegular) \cup Range(rendered.finalNational) :
                      IsAvailable(x) /\ x.availability.reasons = <<>>

\* C5 witness: with unavailable items shown, one item is unavailable by its
\* nation, one by its families, and one with family classes is available.
C5_Witness ==
    /\ Ready
    /\ rendered.showUnavail
    /\ selectedFamilies # {}
    /\ \E x, y, z \in Range(rendered.finalRegular) \cup Range(rendered.finalNational) :
           /\ ~IsAvailable(x) /\ Has(x.filters, "nationPrereq") /\ ~Has(x.filters, "familyClasses")
           /\ ~IsAvailable(y) /\ Has(y.filters, "familyClasses")
           /\ IsAvailable(z) /\ Has(z.filters, "familyClasses")

\* C6: with show-unavailable on, each displayed list holds exactly the
\* filtered ambitions of its partition, with the same multiplicities.
C6_NothingRemoved ==
    (Ready /\ rendered.showUnavail) =>
        /\ SameElements(Stripped(rendered.finalRegular), rendered.filteredRegular)
        /\ SameElements(Stripped(rendered.finalNational), rendered.filteredNational)

\* C6 witness: show-unavailable is on and both displayed lists hold an
\* unavailable item.
C6_Witness ==
    /\ Ready
    /\ rendered.showUnavail
    /\ \E x \in Range(rendered.finalRegular) : ~IsAvailable(x)
    /\ \E x \in Range(rendered.finalNational) : ~IsAvailable(x)

NumberAvailable(filtered) ==
    Cardinality({i \in DOMAIN filtered :
                    CheckAvailability(filtered[i], selectedNation, selectedFamilies).available})

\* C7 as claimed: the report carries, for the regular and for the national
\* partition, the number of available items and the filtered total.
C7_ReportsBothTotals ==
    Ready =>
        /\ rendered.resultCount.availableRegular = NumberAvailable(rendered.filteredRegular)
        /\ rendered.resultCount.totalRegular = Len(rendered.filteredRegular)
        /\ rendered.resultCount.availableNational = NumberAvailable(rendered.filteredNational)
        /\ Has(rendered.resultCount, "totalNational")
        /\ rendered.resultCount.totalNational = Len(rendered.filteredNational)

\* C7 as amended: the report carries the number of available regular items,
\* the filtered total of the regular partition and the number of available
\* national items (no national total), each counted over the filtered lists
\* before unavailable items are dropped.
C7_ReportedCounts ==
    Ready =>
        /\ DOMAIN rendered.resultCount =
               {"availableRegular", "tier", "totalRegular", "availableNational"}
        /\ rendered.resultCount.availableRegular = NumberAvailable(rendered.filteredRegular)
        /\ rendered.resultCount.totalRegular = Len(rendered.filteredRegular)
        /\ rendered.resultCount.availableNational = NumberAvailable(rendered.filteredNational)
        /\ rendered.resultCount.tier = rendered.tierFilter
        /\ ~rendered.showUnavail =>
               /\ rendered.resultCount.availableRegular = Len(rendered.finalRegular)
               /\ rendered.resultCount.availableNational = Len(rendered.finalNational)

\* C7 witness: unavailable items are hidden, and the reported regular total
\* exceeds both the reported available count and the number of items shown.
C7_Witness ==
    /\ Ready
    /\ ~rendered.showUnavail
    /\ rendered.resultCount.totalRegular > rendered.resultCount.availableRegular
    /\ rendered.resultCount.availableRegular > 0
    /\ Len(rendered.filteredNational) > rendered.resultCount.availableNational

\* The event loop lets a pending timer expire; the page's step for it is
\* TimerFires, the only step of the session that takes a timer away.
TimerExpires == \E t \in timers : timers' = timers \ {t}

\* The viewer session with the timers of the event loop: a pending timer is
\* not left pending forever.
SpecFair == Spec /\ WF_timers(TimerExpires)

\* What filterAndRender computes from the controls and globals as they are.
CurrentRender ==
    FilterAndRender(data, selectedNation, selectedFamilies, completedCount, classSelect,
                    searchInput, showUnavailable)

\* At most one timer is pending, and it is the one the handle names.
OneTimerPending == Cardinality(timers) <= 1 /\ timers \subseteq {timeout}

\* A search input recomputes nothing and leaves its own timer as the only
\* pending one.
InputRestartsTimer ==
    searchInput' # searchInput => timers' = {timeout'} /\ rendered' = rendered

\* A timer that fires leaves none pending and recomputes from the controls as
\* the last input left them.
FiringRecomputesOnce ==
    Cardinality(timers') < Cardinality(timers) => timers' = {} /\ rendered' = CurrentRender

\* C17: during a burst of search inputs at most one timer is pending, each
\* input replaces the pending timer by its own and recomputes nothing, the
\* timer that fires recomputes once from the last input and leaves no timer
\* pending, and a pending timer leads to a page without a pending timer that
\* shows the lists of the controls as they are.
C17_Debounced ==
    /\ []OneTimerPending
    /\ [][InputRestartsTimer /\ FiringRecomputesOnce]_vars
    /\ (timers # {} ~> (timers = {} /\ rendered = CurrentRender))

\* C17 witness: a timer is pending after a second search input (the text is
\* empty again) and the page still shows the lists of the text before it.
C17_Witness ==
    /\ Ready
    /\ timers = {timeout}
    /\ searchInput = <<>>
    /\ rendered.searchTerm # <<>>
    /\ rendered.filteredRegular # CurrentRender.filteredRegular

\* C18: in a loaded page the model is the document as served, through every
\* recomputation: ambitions (none carries an availability), nations and
\* family classes; the only step that changes the model is the load itself,
\* and a step of the loaded page changes nothing but the filter context
\* (nation, families, bucket, category, search text, toggle), the debounce
\* timer and the lists shown.
C18_ModelImmutable ==
    /\ [](Ready => /\ data = served
                   /\ \A i \in DOMAIN data.ambitions :
                          "availability" \notin DOMAIN data.ambitions[i])
    /\ [][/\ data' # data => loaded = "loading" /\ loaded' = "ready"
          /\ Ready => served' = served /\ data' = data /\ loaded' = loaded]_vars

\* C18 witness: with a nation selected and unavailable items shown, a
\* recomputation listed the ambitions in another order than the model's, each
\* with an availability, and the model still has the served order.
C18_Witness ==
    /\ Ready
    /\ selectedNation # ""
    /\ rendered.showUnavail
    /\ Len(rendered.finalRegular) >= 2
    /\ Stripped(rendered.finalRegular) # rendered.filteredRegular
    /\ \A i \in DOMAIN rendered.finalRegular :
           "availability" \in DOMAIN rendered.finalRegular[i]
    /\ rendered = CurrentRender
    /\ data.ambitions = served.ambitions

\* Every ordering of a list.
Reorderings(seq) ==
    { [i \in DOMAIN seq |-> seq[q[i]]] :
        q \in {f \in [DOMAIN seq -> DOMAIN seq] : \A i, j \in DOMAIN seq : f[i] = f[j] => i = j} }

\* The list a partition shows for the ambition list in another ordering,
\* under the filters and the selection of the rendering.
FinalOf(ambitions, InPartition(_)) ==
    ProcessAmbitions(FilterAmbitions(SelectSeq(ambitions, InPartition), rendered.tierFilter,
                                     rendered.selectedClass, rendered.searchTerm),
                     rendered.showUnavail, selectedNation, selectedFamilies)

StrictlyAscending(list) ==
    \A i, j \in DOMAIN list : i < j => Compare(list[i], list[j]) < 0

\* the index of an ambition in a list that holds it once
IndexOf(list, a) == CHOOSE i \in DOMAIN list : list[i] = a

\* C19 as claimed: any two items of a displayed list are strictly ordered by
\* the comparator, and every ordering of the ambition list yields the same
\* displayed lists.
C19_TotalOrder ==
    Ready =>
        /\ StrictlyAscending(rendered.finalRegular)
        /\ StrictlyAscending(rendered.finalNational)
        /\ \A other \in Reorderings(data.ambitions) :
               /\ FinalOf(other, IsRegular) = rendered.finalRegular
               /\ FinalOf(other, IsNational) = rendered.finalNational

\* What the sort does instead: two items of a displayed list are never in
\* descending order, items the comparator does not separate keep the order
\* they have in the ambition list, and another ordering of the ambition list
\* changes a displayed list at most among such items.
C19_TiesKeepInputOrder ==
    Ready =>
        /\ \A list \in {rendered.finalRegular, rendered.finalNational} :
               \A i, j \in DOMAIN list :
                   i < j =>
                       /\ Compare(list[i], list[j]) <= 0
                       /\ Compare(list[i], list[j]) = 0 =>
                              IndexOf(data.ambitions, WithoutAvailability(list[i]))
                                  < IndexOf(data.ambitions, WithoutAvailability(list[j]))
        /\ \A other \in Reorderings(data.ambitions) :
               /\ Len(FinalOf(other, IsRegular)) = Len(rendered.finalRegular)
               /\ \A i \in DOMAIN rendered.finalRegular :
                      Compare(FinalOf(other, IsRegular)[i], rendered.finalRegular[i]) = 0
               /\ Len(FinalOf(other, IsNational)) = Len(rendered.finalNational)
               /\ \A i \in DOMAIN rendered.finalNational :
                      Compare(FinalOf(other, IsNational)[i], rendered.finalNational[i]) = 0

\* A step of a handler other than the search input's: the nation, the
\* families, the bucket, the category or the toggle changes.
NonSearchChange ==
    <<selectedNation, selectedFamilies, completedCount, classSelect, showUnavailable>>' #
        <<selectedNation, selectedFamilies, completedCount, classSelect, showUnavailable>>

\* the lists of the controls and globals as they are after the step
UpToDateAfter ==
    rendered' = FilterAndRender(data', selectedNation', selectedFamilies', completedCount',
                                classSelect', searchInput', showUnavailable')

\* C22: every step that changes the nation, the families, the bucket, the
\* category or the toggle leaves the lists computed from the controls as the
\* step leaves them; whenever no timer is pending the lists shown are those
\* of the current controls; and lists that are behind the search text lead
\* to lists that are not.
C22_RecomputedOnEveryChange ==
    /\ [][NonSearchChange => UpToDateAfter]_vars
    /\ [](Ready /\ timers = {} => rendered = CurrentRender)
    /\ ((Ready /\ rendered # CurrentRender) ~> (rendered = CurrentRender))

\* C22 witness: a search text was typed and its timer fired, a nation, a
\* bucket and a category are selected, and the lists shown are those of the
\* current controls, cut down by the search term.
C22_Witness ==
    /\ Ready
    /\ timeout # 0 /\ timers = {}
    /\ selectedNation # "" /\ completedCount # All /\ classSelect # <<>>
    /\ rendered.searchTerm # <<>>
    /\ rendered = CurrentRender
    /\ Len(rendered.filteredRegular) + Len(rendered.filteredNational) < Len(data.ambitions)
    /\ Len(rendered.filteredRegular) + Len(rendered.filteredNational) > 0

\* the family classes of a nation of the model
NationFamilies(n) ==
    {data.nations[n].familyClasses[k] : k \in DOMAIN data.nations[n].familyClasses}

\* C25: while a nation is selected every selected family class is one of
\* the nation's; a step that selects a nation drops the selections outside
\* it and computes the lists from what is left; a step that toggles family
\* classes under a selected nation toggles classes of that nation only.
C25_SelectionWithinNation ==
    /\ [](Ready /\ selectedNation # "" => selectedFamilies \subseteq NationFamilies(selectedNation))
    /\ [][/\ (selectedNation' # selectedNation /\ selectedNation' # "") =>
                 /\ selectedFamilies' = selectedFamilies \cap NationFamilies(selectedNation)'
                 /\ rendered' = FilterAndRender(data, selectedNation', selectedFamilies',
                                                completedCount, classSelect, searchInput,
                                                showUnavailable)
          /\ (selectedNation' = selectedNation /\ selectedNation # "") =>
                 \A f \in (selectedFamilies' \ selectedFamilies)
                              \cup (selectedFamilies \ selectedFamilies') :
                     f \in NationFamilies(selectedNation)]_vars

\* C25 witness: a nation is selected whose family classes are not all the
\* family classes of the model, one of its classes is selected, and the
\* lists show an ambition that another class prefers as unavailable.
C25_Witness ==
    /\ Ready
    /\ selectedNation # ""
    /\ selectedFamilies # {}
    /\ DOMAIN data.familyClasses \ NationFamilies(selectedNation) # {}
    /\ rendered = CurrentRender
    /\ \E i \in DOMAIN rendered.finalRegular :
           /\ ~IsAvailable(rendered.finalRegular[i])
           /\ "familyClasses" \in DOMAIN rendered.finalRegular[i].filters

\* C26: a step that changes the nation, the families, the bucket, the
\* category or the toggle while a timer is pending leaves the timer pending
\* and computes the lists with the search text as typed; a timer that fires
\* computes them from the controls as they are then, which changes nothing
\* when the lists already are those of the controls.
C26_TermReadWhenRun ==
    [][/\ (NonSearchChange /\ timers # {}) =>
              /\ timers' = timers /\ timeout' = timeout
              /\ rendered'.searchTerm = ToLowerCase(Trim(searchInput))
              /\ UpToDateAfter
       /\ Cardinality(timers') < Cardinality(timers) =>
              /\ rendered' = CurrentRender
              /\ rendered = CurrentRender => rendered' = rendered]_vars

\* C26 witness: a timer is pending for a typed search text, and the lists
\* shown already are those of that text and of a selected nation.
C26_Witness ==
    /\ Ready
    /\ timers = {timeout}
    /\ searchInput # <<>>
    /\ selectedNation # ""
    /\ rendered.searchTerm # <<>>
    /\ rendered = CurrentRender

-----------------------------------------------------------------------------
\* One run of main() over goal.xml.

ViewerIdle ==
    /\ served = NoData /\ loaded = "idle" /\ data = NoData
    /\ selectedNation = "" /\ selectedFamilies = {} /\ completedCount = All
    /\ classSelect = <<>> /\ searchInput = <<>> /\ showUnavailable = FALSE
    /\ timeout = 0 /\ timers = {} /\ rendered = NotRendered

InitParse ==
    /\ refDirExists \in BOOLEAN
    /\ goalFile \in {"ok", "missing"}
    /\ entries \in SeqsUpTo(RawGoalEntries, MaxEntries)
    /\ (~refDirExists \/ goalFile = "missing") => entries = <<>>
    /\ idx = 0
    /\ goals = <<>>
    /\ pc = "start"
    /\ output = NotWritten
    /\ exitStatus = "none"
    /\ ViewerIdle
    /\ CatalogIdle
    /\ NationsIdle

\* main: if not REFERENCE_DIR.exists(): ... return 1
CheckReferenceDir ==
    /\ pc = "start"
    /\ IF refDirExists
       THEN pc' = "parse_goals" /\ UNCHANGED exitStatus
       ELSE pc' = "exited" /\ exitStatus' = "1"
    /\ UNCHANGED <<refDirExists, goalFile, entries, idx, goals, output, uiVars, catVars, natVars>>

\* parse_goals: root = parse_xml_file(goals_file); if root is None: return []
OpenGoals ==
    /\ pc = "parse_goals"
    /\ IF goalFile = "ok"
       THEN pc' = "loop"
       ELSE pc' = "write"
    /\ UNCHANGED <<refDirExists, goalFile, entries, idx, goals, output, exitStatus, uiVars, catVars, natVars>>

\* one iteration of "for i, entry in enumerate(entries)"
ParseEntry ==
    /\ pc = "loop"
    /\ idx < Len(entries)
    /\ LET entry == entries[idx + 1]
       IN  IF ShouldSkip(entry)
           THEN /\ idx' = idx + 1
                /\ UNCHANGED <<goals, pc, exitStatus>>
           ELSE IF BuildGoal(entry) = ValueError
           THEN /\ pc' = "crashed"
                /\ exitStatus' = "traceback"
                /\ UNCHANGED <<goals, idx>>
           ELSE /\ goals' = Append(goals, BuildGoal(entry))
                /\ idx' = idx + 1
                /\ UNCHANGED <<pc, exitStatus>>
    /\ UNCHANGED <<refDirExists, goalFile, entries, output, uiVars, catVars, natVars>>

\* the loop is exhausted: return goals
FinishGoals ==
    /\ pc = "loop"
    /\ idx = Len(entries)
    /\ pc' = "write"
    /\ UNCHANGED <<refDirExists, goalFile, entries, idx, goals, output, exitStatus, uiVars, catVars, natVars>>

\* main: output = {..., "ambitions": goals}; json.dump(output, f); return 0
WriteOutput ==
    /\ pc = "write"
    /\ output' = [written |-> TRUE, ambitions |-> goals]
    /\ exitStatus' = "0"
    /\ pc' = "done"
    /\ UNCHANGED <<refDirExists, goalFile, entries, idx, goals, uiVars, catVars, natVars>>

NextParse ==
    \/ CheckReferenceDir
    \/ OpenGoals
    \/ ParseEntry
    \/ FinishGoals
    \/ WriteOutput

SpecParse == InitParse /\ [][NextParse]_vars

-----------------------------------------------------------------------------
\* Properties of the parser (checked under SpecParse).

Published == pc = "done" /\ output.written

\* The entries the claims call retained, read off the raw texts: a non-empty
\* id, bScenario not "1" and bDisabled not "1".
FlagIsOne(entry, tag) == tag \in DOMAIN entry /\ entry[tag] = <<"1">>
IsRetained(entry) ==
    /\ "zType" \in DOMAIN entry /\ entry.zType # ""
    /\ ~FlagIsOne(entry, "bScenario")
    /\ ~FlagIsOne(entry, "bDisabled")
Retained == SelectSeq(entries, IsRetained)

Ids(list) == [i \in DOMAIN list |-> list[i].id]
RawIds(list) == [i \in DOMAIN list |-> list[i].zType]
Distinct(seq) == \A i, j \in DOMAIN seq : i # j => seq[i] # seq[j]

\* C8 as claimed: for any sequence of raw entries the published ids are
\* pairwise distinct.
C8_IdsDistinct ==
    Published => Distinct(Ids(output.ambitions))

\* What parse_goals does instead: the published ids are pairwise distinct
\* exactly when the ids of the retained raw entries are (no entry is merged,
\* renamed or dropped for sharing an id).
C8_DistinctIffSourceDistinct ==
    Published => (Distinct(Ids(output.ambitions)) <=> Distinct(RawIds(Retained)))

\* The value the claims give a tier field, read off the raw text: the decimal
\* number it spells, the default when it is absent, empty or not a number.
SpelledTier(entry, tag, default) ==
    IF tag \notin DOMAIN entry THEN default
    ELSE IF entry[tag] = <<"3">> THEN 3
    ELSE IF entry[tag] = <<"7">> THEN 7
    ELSE IF entry[tag] = <<"1","1">> THEN 11
    ELSE default

\* C9 as claimed: every published ambition has minTier <= maxTier.
C9_TierOrdered ==
    Published => \A i \in DOMAIN output.ambitions :
                     output.ambitions[i].minTier <= output.ambitions[i].maxTier

\* What parse_goals does instead: every published ambition carries the tiers
\* of its entry, iMinTier defaulting to 1 and iMaxTier to 10, unvalidated; so
\* minTier <= maxTier holds exactly for the entries whose values, after
\* defaulting, are so ordered.
C9_TiersAsSupplied ==
    Published =>
        /\ Len(output.ambitions) = Len(Retained)
        /\ \A i \in DOMAIN output.ambitions :
               /\ output.ambitions[i].minTier = SpelledTier(Retained[i], "iMinTier", 1)
               /\ output.ambitions[i].maxTier = SpelledTier(Retained[i], "iMaxTier", 10)
               /\ output.ambitions[i].minTier <= output.ambitions[i].maxTier
                      <=> SpelledTier(Retained[i], "iMinTier", 1)
                              <= SpelledTier(Retained[i], "iMaxTier", 10)

\* C10: the published list holds one ambition per retained entry, in source
\* order, and nothing else; the loop passes over an entry that is not
\* retained without ending the run.
C10_ExactlyRetained ==
    /\ Published => Ids(output.ambitions) = RawIds(Retained)
    /\ pc = "loop" => Ids(goals) = RawIds(SelectSeq(SubSeq(entries, 1, idx), IsRetained))
    /\ pc = "crashed" => (idx < Len(entries) /\ IsRetained(entries[idx + 1]))

\* C10 witness: a scenario-only entry with a malformed pair list and other
\* fields set is followed by a retained entry; only the second is published.
C10_Witness ==
    /\ Published
    /\ Len(entries) = 2
    /\ FlagIsOne(entries[1], "bScenario")
    /\ "aiYieldProducedData" \in DOMAIN entries[1]
    /\ IsRetained(entries[2])
    /\ Ids(output.ambitions) = <<entries[2].zType>>

Finished == pc \in {"done", "exited", "crashed"}

\* C11 as claimed: when the reference directory or goal.xml is absent the run
\* ends with a nonzero status and no output document is written.
C11_MissingSourceAborts ==
    (~refDirExists \/ goalFile = "missing") =>
        /\ ~output.written
        /\ Finished => exitStatus \notin {"0", "none"}

\* What main does instead: a missing directory ends the run with status 1 and
\* nothing written; with the directory present and goal.xml unreadable the
\* run goes on, writes a document with an empty ambition list and returns 0.
C11_OnlyDirectoryIsFatal ==
    Finished =>
        /\ ~refDirExists => (exitStatus = "1" /\ ~output.written)
        /\ (refDirExists /\ goalFile = "missing") =>
               (exitStatus = "0" /\ output.written /\ output.ambitions = <<>>)

\* C12 as claimed: with the directory and goal.xml present no entry content
\* ends the run early; every retained entry is emitted and the status is 0.
C12_NoContentAborts ==
    (refDirExists /\ goalFile = "ok") =>
        /\ pc # "crashed"
        /\ Finished => /\ exitStatus = "0"
                       /\ output.written
                       /\ Len(output.ambitions) = Len(Retained)

\* The count a raw entry spells in a simple-count field (0 when the field is
\* absent), and the pairs of a typed-count field that name a subtype.
SpelledCount(entry, field) ==
    IF field \notin DOMAIN entry THEN 0
    ELSE IF entry[field] = <<"2">> THEN 2
    ELSE IF entry[field] = <<"-","1">> THEN 0 - 1
    ELSE 0
NamedPairs(entry, field) ==
    IF field \notin DOMAIN entry THEN <<>>
    ELSE SelectSeq(entry[field], LAMBDA pair : "zIndex" \in DOMAIN pair)
HoldsCount(req, key, n) ==
    key \in DOMAIN req /\ req[key] = [type |-> "number", value |-> n]
HoldsList(req, key, pairs) ==
    /\ key \in DOMAIN req
    /\ "items" \in DOMAIN req[key]
    /\ Len(req[key].items) = Len(pairs)
    /\ \A k \in DOMAIN pairs : req[key].items[k].type = pairs[k].zIndex

\* C15 as claimed: for every row of the simple-count table and every row of
\* the typed-count table, a published ambition whose entry carries a nonzero
\* count in the one and a non-empty list in the other holds both values, each
\* under its output key.
C15_BothPopulated ==
    Published =>
        \A i \in DOMAIN output.ambitions :
            \A s \in DOMAIN SimpleCounts, t \in DOMAIN TypedCounts :
                (/\ SpelledCount(Retained[i], SimpleCounts[s][1]) # 0
                 /\ NamedPairs(Retained[i], TypedCounts[t][1]) # <<>>)
                => /\ HoldsCount(output.ambitions[i].requirements, SimpleCounts[s][2],
                                 SpelledCount(Retained[i], SimpleCounts[s][1]))
                   /\ HoldsList(output.ambitions[i].requirements, TypedCounts[t][2],
                                NamedPairs(Retained[i], TypedCounts[t][1]))

\* What the two passes do instead: both values are held when the count is
\* above 0 and the two rows have different output keys; iSpecialists and
\* aiSpecialistCount share the key "specialists", where the list replaces the
\* count.
C15_DistinctKeysCoexist ==
    Published =>
        \A i \in DOMAIN output.ambitions :
            \A s \in DOMAIN SimpleCounts, t \in DOMAIN TypedCounts :
                (/\ SpelledCount(Retained[i], SimpleCounts[s][1]) > 0
                 /\ NamedPairs(Retained[i], TypedCounts[t][1]) # <<>>)
                => /\ HoldsList(output.ambitions[i].requirements, TypedCounts[t][2],
                                NamedPairs(Retained[i], TypedCounts[t][1]))
                   /\ SimpleCounts[s][2] # TypedCounts[t][2] =>
                          HoldsCount(output.ambitions[i].requirements, SimpleCounts[s][2],
                                     SpelledCount(Retained[i], SimpleCounts[s][1]))
                   /\ output.ambitions[i].requirements.type = "count"

\* C16 as claimed: every published ambition with an eventSource has
\* subjectWeight 0.
C16_EventSourceMeansWeightZero ==
    Published =>
        \A i \in DOMAIN output.ambitions :
            "eventSource" \in DOMAIN output.ambitions[i]
                => output.ambitions[i].subjectWeight = 0

\* What parse_goals does instead: the eventSource is attached by id alone and
\* the subject weight is the entry's own.
C16_EventSourceById ==
    Published =>
        \A i \in DOMAIN output.ambitions :
            /\ "eventSource" \in DOMAIN output.ambitions[i]
                   <=> Retained[i].zType = "GOAL_TAKE_CITY"
            /\ output.ambitions[i].subjectWeight =
                   (IF "iSubjectWeight" \in DOMAIN Retained[i] THEN 5 ELSE 0)

-----------------------------------------------------------------------------
\* build_text_lookup over the text files, then resolve_link on texts, with
\* the catalog that was built.

LinkInputs ==
    LET closed == SeqsUpTo(LinkPartPool, MaxLinkParts)
    IN  closed \cup {Append(parts, Unclosed) : parts \in closed}

InitCatalog ==
    /\ textFiles \in SeqsUpTo(TextFilePool, MaxTextFiles)
    /\ fileIdx = 0
    /\ texts = EmptyObject
    /\ linkParts = <<>>
    /\ linkResult = <<>>
    /\ cpc = "build"
    /\ ViewerIdle
    /\ ParserIdle
    /\ NationsIdle

\* one iteration of "for filepath in text_files"
LoadTextFile ==
    /\ cpc = "build"
    /\ fileIdx < Len(textFiles)
    /\ texts' = LoadFile(texts, textFiles[fileIdx + 1])
    /\ fileIdx' = fileIdx + 1
    /\ UNCHANGED <<textFiles, linkParts, linkResult, cpc, uiVars, parseVars, natVars>>

\* the loop is exhausted: return texts
FinishTexts ==
    /\ cpc = "build"
    /\ fileIdx = Len(textFiles)
    /\ cpc' = "built"
    /\ UNCHANGED <<textFiles, fileIdx, texts, linkParts, linkResult, uiVars, parseVars, natVars>>

\* a call resolve_link(text, texts, type_lookups)
ResolveLinkCall ==
    /\ cpc = "built"
    /\ \E parts \in LinkInputs :
           /\ linkParts' = parts
           /\ linkResult' = ResolveLink(PartsText(parts), texts, TypeLookups)
    /\ cpc' = "resolved"
    /\ UNCHANGED <<textFiles, fileIdx, texts, uiVars, parseVars, natVars>>

NextCatalog ==
    \/ LoadTextFile
    \/ FinishTexts
    \/ ResolveLinkCall

SpecCatalog == InitCatalog /\ [][NextCatalog]_vars

-----------------------------------------------------------------------------
\* Properties of the catalog and the resolver (checked under SpecCatalog).

\* the entries of the files loaded so far, in load order
RECURSIVE EntriesOf(_)
EntriesOf(files) ==
    IF files = <<>> THEN <<>> ELSE Head(files).entries \o EntriesOf(Tail(files))
LoadedEntries == EntriesOf(SubSeq(textFiles, 1, fileIdx))
Defines(entry, key) ==
    /\ "zType" \in DOMAIN entry /\ entry.zType = key
    /\ "enUS" \in DOMAIN entry /\ entry.enUS # <<>>
Defining(key) == SelectSeq(LoadedEntries, LAMBDA entry : Defines(entry, key))

\* p is the part of t before its first "~" (t itself when it has none)
IsBeforeFirstTilde(p, t) ==
    /\ Len(p) <= Len(t)
    /\ SubSeq(t, 1, Len(p)) = p
    /\ \A i \in DOMAIN p : p[i] # "~"
    /\ Len(p) = Len(t) \/ t[Len(p) + 1] = "~"

\* C13: after any number of text files, loaded in order, a key has a catalog
\* value exactly when a loaded entry gives it a display text, and the value
\* is the part before the first "~" of the display text of the last such
\* entry: later definitions replace earlier ones, unreadable files add nothing.
C13_LastSourceFirstVariant ==
    cpc # "idle" =>
        /\ DOMAIN texts \subseteq {KeyOne, KeyTwo}
        /\ \A key \in {KeyOne, KeyTwo} :
               IF Defining(key) = <<>> THEN key \notin DOMAIN texts
               ELSE /\ key \in DOMAIN texts
                    /\ IsBeforeFirstTilde(texts[key],
                                          Defining(key)[Len(Defining(key))].enUS)

\* C13 witness: two files define the same key, the second twice and last with
\* several variants; the catalog holds the first variant of that last text.
C13_Witness ==
    /\ cpc = "built"
    /\ Len(Defining(KeyOne)) = 3
    /\ Defining(KeyOne)[1].enUS = <<"c">>
    /\ Defining(KeyOne)[3].enUS = <<"e","~","f","~","g">>
    /\ texts[KeyOne] = <<"e">>

\* What the claims expect of the fallback formatting, reference by reference:
\* the first known prefix stripped, underscores as spaces, title case; a
\* reference without a known prefix unchanged.
FallbackLabel(ref) ==
    IF ref = <<"L","A","W","_","F","O","O","_","B","A","R">> THEN <<"F","o","o"," ","B","a","r">>
    ELSE IF ref = LawA THEN <<"A">>
    ELSE IF ref = TechB THEN <<"B">>
    ELSE IF ref = <<"U","N","I","T","_","b","2","_","c","D">> THEN <<"B","2"," ","C","d">>
    ELSE ref

TablesHolding(ref) == {i \in DOMAIN TypeLookups : ref \in DOMAIN TypeLookups[i]}
TablesWithText(ref) == {i \in TablesHolding(ref) : TypeLookups[i][ref] \in DOMAIN texts}
First(S) == CHOOSE i \in S : \A j \in S : i <= j

\* The text a macro stands for according to C14 as claimed: when a table
\* holds the reference, the catalog text of its name key.
ClaimedDefined(part) ==
    (part.kind = "link" /\ TablesHolding(part.ref) # {}) =>
        TypeLookups[First(TablesHolding(part.ref))][part.ref] \in DOMAIN texts
ClaimedPiece(part) ==
    IF part.kind = "text" THEN part.text
    ELSE IF TablesHolding(part.ref) # {}
    THEN texts[TypeLookups[First(TablesHolding(part.ref))][part.ref]]
    ELSE FallbackLabel(part.ref)

\* The text a macro stands for in resolve_link: the catalog text of the name
\* key of the first table that holds the reference under a key the catalog
\* defines; the fallback label when there is no such table.
ResolvedPiece(part) ==
    IF part.kind = "text" THEN part.text
    ELSE IF TablesWithText(part.ref) # {}
    THEN texts[TypeLookups[First(TablesWithText(part.ref))][part.ref]]
    ELSE FallbackLabel(part.ref)

RECURSIVE Flatten(_)
Flatten(list) == IF list = <<>> THEN <<>> ELSE Head(list) \o Flatten(Tail(list))

\* C14 as claimed: every macro whose reference some table holds is replaced
\* by the catalog text of that table's name key; every other macro by the
\* fallback label; the text around the macros is kept.
C14_TableHitGivesCatalogText ==
    cpc = "resolved" =>
        /\ \A k \in DOMAIN linkParts : ClaimedDefined(linkParts[k])
        /\ linkResult = Flatten([k \in DOMAIN linkParts |-> ClaimedPiece(linkParts[k])])

\* C14 as amended: a macro is replaced by the catalog text only when a table
\* holds its reference under a name key that has a catalog text (the first
\* such table decides); otherwise by the fallback label, also when tables
\* hold the reference; the text around the macros is kept.
C14_FallbackWithoutCatalogText ==
    cpc = "resolved" => linkResult = Flatten([k \in DOMAIN linkParts |-> ResolvedPiece(linkParts[k])])

\* C14 witness: link(LAW_A,1) is in both tables; the first table's name key
\* has no text, so the text of the second table's key is used; the macro
\* next to it has no table and gets its fallback label.
C14_Witness ==
    /\ cpc = "resolved"
    /\ KeyOne \notin DOMAIN texts
    /\ KeyTwo \in DOMAIN texts
    /\ linkParts = <<Macro(LawA, <<",","1">>), Macro(<<"L","A","W","_","F","O","O","_","B","A","R">>, <<>>)>>
    /\ linkResult = texts[KeyTwo] \o <<"F","o","o"," ","B","a","r">>

-----------------------------------------------------------------------------
\* filterAndRender applied once to a filter context: every bucket button, the
\* category options, and search texts that meet the name, the class name,
\* the help text, a family-class name, and the space between two fields.

AllCompletedButtons == {All} \cup {BucketButton(b) : b \in 0..9}
ClassOptions == {<<>>} \cup DOMAIN AmbitionClassTable
WideSearchTexts ==
    { <<>>, <<" "," ">>, <<" ","A","B">>, <<"C","L">>, <<"b","a">>, <<"S","a">>,
      <<"b"," ","c">>, <<"b","c">> }

InitFilter ==
    /\ served \in Documents
    /\ data = served
    /\ loaded = "ready"
    /\ selectedNation = "" /\ selectedFamilies = {}
    /\ completedCount \in AllCompletedButtons
    /\ classSelect \in ClassOptions
    /\ searchInput \in WideSearchTexts
    /\ showUnavailable = FALSE
    /\ timeout = 0 /\ timers = {}
    /\ rendered = NotRendered
    /\ ParserIdle
    /\ CatalogIdle
    /\ NationsIdle

\* one call of filterAndRender()
Recompute ==
    /\ rendered = NotRendered
    /\ Render(data, selectedNation, selectedFamilies, completedCount, classSelect,
              searchInput, showUnavailable)
    /\ UNCHANGED <<served, loaded, selectedNation, selectedFamilies, completedCount,
                   classSelect, searchInput, showUnavailable, timeout, timers, parseVars,
                   catVars, natVars>>

NextFilter == Recompute

SpecFilter == InitFilter /\ [][NextFilter]_vars

-----------------------------------------------------------------------------
\* Properties of the filters (checked under SpecFilter).

\* the decimal spelling of a class id
Decimal(n) == IF n < 10 THEN <<Digits[n + 1]>>
              ELSE <<Digits[(n \div 10) + 1], Digits[(n % 10) + 1]>>

\* the term the claim searches for: the search text trimmed and lower-cased
ClaimedTerm == ToLowerCase(Trim(searchInput))

OccursIn(text, term) ==
    \E from \in 1..(Len(text) + 1) :
        /\ from + Len(term) - 1 <= Len(text)
        /\ \A k \in 1..Len(term) : text[from + k - 1] = term[k]

FamilyNames(a) ==
    IF "familyClassNames" \in DOMAIN a.filters THEN a.filters.familyClassNames ELSE <<>>

\* the fields of an ambition put one behind the other
ConcatenatedFields(a) ==
    a.name \o a.ambitionClassName \o a.helpText \o Flatten(FamilyNames(a))

\* the fields of an ambition with one space between every two of them (also
\* around an empty help text)
SpaceJoinedFields(a) ==
    a.name \o <<" ">> \o a.ambitionClassName \o <<" ">> \o a.helpText
        \o Flatten([k \in DOMAIN FamilyNames(a) |-> <<" ">> \o FamilyNames(a)[k]])

ClaimedTier(a) ==
    \/ completedCount = All
    \/ \E b \in 0..9 : /\ completedCount = BucketButton(b)
                       /\ a.minTier <= b + 1 /\ b + 1 <= a.maxTier

ClaimedCategory(a) == classSelect = <<>> \/ classSelect = Decimal(a.ambitionClass)

\* The ambitions of a partition that pass the three filters, in the order of
\* the ambition list, searching the text SearchedText(a).
Survivors(InPartition(_), SearchedText(_)) ==
    LET Passes(a) == /\ InPartition(a)
                     /\ ClaimedTier(a)
                     /\ ClaimedCategory(a)
                     /\ ClaimedTerm = <<>> \/ OccursIn(ToLowerCase(SearchedText(a)), ClaimedTerm)
    IN  SelectSeq(data.ambitions, Passes)

NationalByFlags(a) == a.flags.victoryEligible /\ a.minTier = 10
RegularByFlags(a) == ~NationalByFlags(a)
Recomputed == rendered # NotRendered

\* C20 as claimed: each filtered partition holds exactly the ambitions that
\* pass the tier filter, the category filter and the search filter, the
\* search looking for the trimmed, lower-cased term in the lower-cased
\* concatenation of name, class name, help text and family-class names.
C20_SearchInConcatenation ==
    Recomputed =>
        /\ rendered.filteredRegular = Survivors(RegularByFlags, ConcatenatedFields)
        /\ rendered.filteredNational = Survivors(NationalByFlags, ConcatenatedFields)

\* C20 as amended: the same with the fields joined by single spaces; when
\* no ambition has the selected category both filtered lists are empty.
C20_SearchInSpaceJoinedFields ==
    Recomputed =>
        /\ rendered.filteredRegular = Survivors(RegularByFlags, SpaceJoinedFields)
        /\ rendered.filteredNational = Survivors(NationalByFlags, SpaceJoinedFields)
        /\ (classSelect # <<>> /\ \A a \in Range(data.ambitions) :
                                      Decimal(a.ambitionClass) # classSelect)
               => rendered.filteredRegular = <<>> /\ rendered.filteredNational = <<>>

\* C20 witness: with a bucket selected and a term that is in no name, one
\* ambition is kept for its help text, one that passes the tier and category
\* filters is dropped by the search, and one is dropped by the tier filter.
C20_Witness ==
    /\ Recomputed
    /\ completedCount # All
    /\ ClaimedTerm # <<>>
    /\ \A a \in Range(data.ambitions) : ~OccursIn(ToLowerCase(a.name), ClaimedTerm)
    /\ \E a \in Range(rendered.filteredRegular) : OccursIn(ToLowerCase(a.helpText), ClaimedTerm)
    /\ \E a \in Range(data.ambitions) :
           /\ ClaimedTier(a) /\ ClaimedCategory(a)
           /\ a \notin Range(rendered.filteredRegular) \cup Range(rendered.filteredNational)
    /\ \E a \in Range(data.ambitions) : ~ClaimedTier(a)

-----------------------------------------------------------------------------
\* One run of main() over a goal.xml with one entry, whose requirement
\* fields vary.

InitRequirements ==
    /\ refDirExists \in BOOLEAN
    /\ goalFile \in {"ok", "missing"}
    /\ entries \in {<<>>} \cup {<<e>> : e \in RequirementEntries}
    /\ (~refDirExists \/ goalFile = "missing") => entries = <<>>
    /\ idx = 0
    /\ goals = <<>>
    /\ pc = "start"
    /\ output = NotWritten
    /\ exitStatus = "none"
    /\ ViewerIdle
    /\ CatalogIdle
    /\ NationsIdle

SpecRequirements == InitRequirements /\ [][NextParse]_vars

-----------------------------------------------------------------------------
\* Properties of the requirements (checked under SpecRequirements).

TextGiven(entry, field) == field \in DOMAIN entry /\ entry[field] # ""
ValuesGiven(entry, field) ==
    IF field \notin DOMAIN entry THEN <<>>
    ELSE SelectSeq(entry[field], LAMBDA v : v # "")
AnyCountAbove0(entry) ==
    \E s \in DOMAIN SimpleCounts : SpelledCount(entry, SimpleCounts[s][1]) > 0
AnyCountNonzero(entry) ==
    \E s \in DOMAIN SimpleCounts : SpelledCount(entry, SimpleCounts[s][1]) # 0
AnyListNonempty(entry) ==
    \E t \in DOMAIN TypedCounts : NamedPairs(entry, TypedCounts[t][1]) # <<>>
TaggedElsewhere(entry) ==
    \/ TextGiven(entry, "StartLaw")
    \/ TextGiven(entry, "EstablishTheology")
    \/ ValuesGiven(entry, "aeTechsAcquired") # <<>>
ListUnderKey(entry, key) ==
    \E t \in DOMAIN TypedCounts :
        TypedCounts[t][2] = key /\ NamedPairs(entry, TypedCounts[t][1]) # <<>>
TypeIs(req, tag) == "type" \in DOMAIN req /\ req.type = tag

\* C21 as claimed, for entries that no other shape tags: every nonzero count
\* and every non-empty list is held under its output key; the tag is
\* "typed_count" when the typed pass stored a list, and "count" when only the
\* simple pass stored a value.
C21_EachPassTags ==
    Published =>
        \A i \in DOMAIN output.ambitions :
            LET e   == Retained[i]
                req == output.ambitions[i].requirements
            IN  ~TaggedElsewhere(e) =>
                    /\ \A s \in DOMAIN SimpleCounts :
                           (/\ SpelledCount(e, SimpleCounts[s][1]) # 0
                            /\ ~ListUnderKey(e, SimpleCounts[s][2]))
                           => HoldsCount(req, SimpleCounts[s][2],
                                         SpelledCount(e, SimpleCounts[s][1]))
                    /\ \A t \in DOMAIN TypedCounts :
                           NamedPairs(e, TypedCounts[t][1]) # <<>>
                           => HoldsList(req, TypedCounts[t][2], NamedPairs(e, TypedCounts[t][1]))
                    /\ AnyListNonempty(e) => TypeIs(req, "typed_count")
                    /\ (AnyCountNonzero(e) /\ ~AnyListNonempty(e)) => TypeIs(req, "count")

\* C21 as amended: every count above 0 is held under its output key (unless
\* a list is stored under the same key afterwards), no other count is held,
\* and every list with a named pair is held under its output key; a pass
\* tags only a record that has no tag at all: "count" when a count is above
\* 0 and no law or theology is given, "typed_count" when a list is stored,
\* no count is above 0 and no law or theology is given; a technology list
\* replaces either tag.
C21_PassTagsUntaggedRecord ==
    Published =>
        \A i \in DOMAIN output.ambitions :
            LET e   == Retained[i]
                req == output.ambitions[i].requirements
                early == TextGiven(e, "StartLaw") \/ TextGiven(e, "EstablishTheology")
                techs == ValuesGiven(e, "aeTechsAcquired") # <<>>
            IN  /\ \A s \in DOMAIN SimpleCounts :
                       ~ListUnderKey(e, SimpleCounts[s][2]) =>
                           IF SpelledCount(e, SimpleCounts[s][1]) > 0
                           THEN HoldsCount(req, SimpleCounts[s][2],
                                           SpelledCount(e, SimpleCounts[s][1]))
                           ELSE SimpleCounts[s][2] \notin DOMAIN req
                /\ \A t \in DOMAIN TypedCounts :
                       NamedPairs(e, TypedCounts[t][1]) # <<>>
                       => HoldsList(req, TypedCounts[t][2], NamedPairs(e, TypedCounts[t][1]))
                /\ (AnyCountAbove0(e) /\ ~early /\ ~techs) => TypeIs(req, "count")
                /\ (AnyListNonempty(e) /\ ~AnyCountAbove0(e) /\ ~early /\ ~techs)
                       => TypeIs(req, "typed_count")
                /\ (early \/ techs) => ~TypeIs(req, "count") /\ ~TypeIs(req, "typed_count")

\* C21 witness: an entry with a law, a count above 0 and a non-empty list:
\* both values are held and the tag is the law's.
C21_Witness ==
    /\ Published
    /\ Len(output.ambitions) = 1
    /\ TextGiven(entries[1], "StartLaw")
    /\ ~TextGiven(entries[1], "EstablishTheology")
    /\ ValuesGiven(entries[1], "aeTechsAcquired") = <<>>
    /\ HoldsCount(output.ambitions[1].requirements, "cities", 2)
    /\ HoldsList(output.ambitions[1].requirements, "yieldProduced",
                 NamedPairs(entries[1], "aiYieldProducedData"))
    /\ TypeIs(output.ambitions[1].requirements, "law")

\* C24: the tag of a published ambition is "techs" when the technology list
\* has a value; otherwise "theology" when a theology is given; otherwise
\* "law" when a law is given; otherwise "count" when a count is above 0;
\* otherwise "typed_count" when a pair list has a named pair; otherwise the
\* tag is absent. The later shapes play no part.
C24_TagPrecedence ==
    Published =>
        \A i \in DOMAIN output.ambitions :
            LET e   == Retained[i]
                req == output.ambitions[i].requirements
            IN  IF ValuesGiven(e, "aeTechsAcquired") # <<>> THEN TypeIs(req, "techs")
                ELSE IF TextGiven(e, "EstablishTheology") THEN TypeIs(req, "theology")
                ELSE IF TextGiven(e, "StartLaw") THEN TypeIs(req, "law")
                ELSE IF AnyCountAbove0(e) THEN TypeIs(req, "count")
                ELSE IF AnyListNonempty(e) THEN TypeIs(req, "typed_count")
                ELSE "type" \notin DOMAIN req

\* C24 witness: an entry with every tagging field and every later shape is
\* published with the tag "techs" and holds the values of all of them.
C24_Witness ==
    /\ Published
    /\ Len(output.ambitions) = 1
    /\ TextGiven(entries[1], "StartLaw")
    /\ TextGiven(entries[1], "EstablishTheology")
    /\ AnyCountAbove0(entries[1])
    /\ AnyListNonempty(entries[1])
    /\ {"law", "theology", "techs", "cities", "diplomacyAll", "minOpinionFamily"}
           \subseteq DOMAIN output.ambitions[1].requirements
    /\ TypeIs(output.ambitions[1].requirements, "techs")

-----------------------------------------------------------------------------
\* One run of parse_nations() over nation.xml and family.xml.

InitNations ==
    LET Pair(n, b) == [zIndex |-> n, bValue |-> b]
        FamilyEntryPool ==
            { [zType |-> "FAMILY_A", FamilyClass |-> Sages,
               abNation |-> <<Pair(Rome, <<"1">>), Pair(Egypt, <<"0">>)>>],
              [zType |-> "FAMILY_B", FamilyClass |-> Riders,
               abNation |-> <<Pair(Rome, <<"1">>), Pair(Egypt, <<"1">>)>>],
              [zType |-> "FAMILY_C", FamilyClass |-> Sages,
               abNation |-> <<Pair(Rome, <<"1">>), [zIndex |-> Egypt], [bValue |-> <<"1">>]>>],
              [zType |-> "", FamilyClass |-> "FAMILYCLASS_CLERICS",
               abNation |-> <<Pair(Rome, <<"1">>)>>],
              [zType |-> "FAMILY_D", abNation |-> <<Pair(Egypt, <<"1">>)>>],
              [zType |-> "FAMILY_E", FamilyClass |-> Riders] }
        NationEntryPool ==
            { [zType |-> Rome],
              [zType |-> Egypt, bDisabled |-> <<"0">>, GameContentRequired |-> "DLC_EGYPT"],
              [zType |-> Egypt, bDisabled |-> <<"1">>],
              [zType |-> "", bDisabled |-> <<"0">>],
              [zType |-> "NATION_GREECE"] }
    IN  /\ nationFile \in {"ok", "missing"}
        /\ familyFile \in {"ok", "missing"}
        /\ nationEntries \in SeqsUpTo(NationEntryPool, MaxNationEntries)
        /\ familyEntries \in SeqsUpTo(FamilyEntryPool, MaxFamilyEntries)
        /\ nationFile = "missing" => nationEntries = <<>>
        /\ familyFile = "missing" => familyEntries = <<>>
        /\ nationFamilyClasses = EmptyObject
        /\ natIdx = 0
        /\ nations = EmptyObject
        /\ npc = "start"
        /\ ViewerIdle
        /\ ParserIdle
        /\ CatalogIdle

\* root = parse_xml_file(nation.xml); if root is None: return {}
OpenNations ==
    /\ npc = "start"
    /\ npc' = IF nationFile = "ok" THEN "families" ELSE "done"
    /\ UNCHANGED <<nationFile, nationEntries, familyFile, familyEntries, nationFamilyClasses,
                   natIdx, nations, uiVars, parseVars, catVars>>

\* _, nation_family_classes = parse_families()   ([], {} when family.xml
\* does not parse)
ParseFamilies ==
    /\ npc = "families"
    /\ nationFamilyClasses' = IF familyFile = "ok" THEN NationFamilyClasses(familyEntries)
                              ELSE EmptyObject
    /\ npc' = "loop"
    /\ UNCHANGED <<nationFile, nationEntries, familyFile, familyEntries, natIdx, nations,
                   uiVars, parseVars, catVars>>

\* one iteration of "for entry in root.findall('Entry')" of parse_nations;
\* list(set) gives the classes in an order the set decides (the name of the
\* nation is left out)
ParseNationEntry ==
    /\ npc = "loop"
    /\ natIdx < Len(nationEntries)
    /\ natIdx' = natIdx + 1
    /\ LET entry   == nationEntries[natIdx + 1]
           classes == IF HasText(entry, "zType") /\ entry.zType \in DOMAIN nationFamilyClasses
                      THEN nationFamilyClasses[entry.zType] ELSE {}
       IN  IF ~HasText(entry, "zType") \/ GetBool(entry, "bDisabled")
           THEN UNCHANGED nations
           ELSE \E list \in [1..Cardinality(classes) -> classes] :
                    /\ \A i, j \in DOMAIN list : list[i] = list[j] => i = j
                    /\ nations' = Put(nations, entry.zType,
                                      [id            |-> entry.zType,
                                       dlc           |-> GetText(entry, "GameContentRequired"),
                                       familyClasses |-> list])
    /\ UNCHANGED <<nationFile, nationEntries, familyFile, familyEntries, nationFamilyClasses,
                   npc, uiVars, parseVars, catVars>>

\* the loop is exhausted: return nations
FinishNations ==
    /\ npc = "loop"
    /\ natIdx = Len(nationEntries)
    /\ npc' = "done"
    /\ UNCHANGED <<nationFile, nationEntries, familyFile, familyEntries, nationFamilyClasses,
                   natIdx, nations, uiVars, parseVars, catVars>>

NextNations ==
    \/ OpenNations
    \/ ParseFamilies
    \/ ParseNationEntry
    \/ FinishNations

SpecNations == InitNations /\ [][NextNations]_vars

-----------------------------------------------------------------------------
\* Properties of the nations (checked under SpecNations).

NationsPublished == npc = "done"

\* a family record lists nation n with a true association
ListsNation(record, n) ==
    /\ "abNation" \in DOMAIN record
    /\ \E k \in DOMAIN record.abNation :
           /\ "zIndex" \in DOMAIN record.abNation[k] /\ record.abNation[k].zIndex = n
           /\ "bValue" \in DOMAIN record.abNation[k] /\ record.abNation[k].bValue = <<"1">>

\* the FamilyClass values of the family records among Records that list n
ClassesOf(n, Records) ==
    {familyEntries[k].FamilyClass :
        k \in {j \in Records : /\ ListsNation(familyEntries[j], n)
                               /\ "FamilyClass" \in DOMAIN familyEntries[j]
                               /\ familyEntries[j].FamilyClass # ""}}

\* the ids of the nation records that are not disabled and have an id
RetainedNations ==
    {nationEntries[k].zType :
        k \in {j \in DOMAIN nationEntries :
                  /\ nationEntries[j].zType # ""
                  /\ ~FlagIsOne(nationEntries[j], "bDisabled")}}

FamilyClassesAre(Records) ==
    \A n \in DOMAIN nations :
        /\ Distinct(nations[n].familyClasses)
        /\ Range(nations[n].familyClasses) = ClassesOf(n, Records)

\* C23 as claimed: exactly the nations that have an id and are not disabled
\* are published, and the family classes of each are, without duplicates,
\* those of the family records that list it with bValue 1.
C23_ClassesOfEveryFamilyRecord ==
    NationsPublished =>
        /\ DOMAIN nations = RetainedNations
        /\ FamilyClassesAre(DOMAIN familyEntries)

\* C23 as amended: the same, over the family records that have an id.
C23_ClassesOfNamedFamilyRecords ==
    NationsPublished =>
        /\ DOMAIN nations = RetainedNations
        /\ FamilyClassesAre({k \in DOMAIN familyEntries : familyEntries[k].zType # ""})

\* C23 witness: two family records list Rome with bValue 1, one of them
\* lists Egypt with bValue 0 and the other with bValue 1; Rome is published
\* with both family classes, and Egypt, disabled, is not published.
C23_Witness ==
    /\ NationsPublished
    /\ Len(familyEntries) = 2
    /\ DOMAIN nations = {Rome}
    /\ \E k \in DOMAIN nationEntries : nationEntries[k].zType = Egypt
    /\ ListsNation(familyEntries[1], Rome) /\ ListsNation(familyEntries[2], Rome)
    /\ ~ListsNation(familyEntries[1], Egypt) /\ ListsNation(familyEntries[2], Egypt)
    /\ nations[Rome].familyClasses = <<Riders, Sages>>

====
